---- MODULE Spec2Model ----
(***************************************************************************)
(* State-machine model of the photo gallery application: the persisted     *)
(* 'photos' and 'albums' collections (AsyncStorage), the filesystem, and   *)
(* the screens that read and write them (camera, gallery, photo details,   *)
(* crop, albums).  Every async handler is a task: its closure is captured  *)
(* when the handler is invoked, and each await is a step boundary at       *)
(* which other handlers may run.                                           *)
(***************************************************************************)
EXTENDS Integers, Sequences, FiniteSets, TLC

\* ------------------------------------------------------------- bounds
\* handlers that write to the store or make a file, invoked in one run
MaxOps == 3
\* async handlers in flight at the same time
MaxTasks == 3
\* albums in the lists the cascade and the album view are tried on
FnAlbums == 1
\* handlers invoked in one run in which getItem and setItem may reject
MaxFaultOps == 1
\* handlers invoked in one run in which they overlap over a persisted photo
MaxOverlapOps == 2

\* text the user can type as a caption
Captions == {"", "hi"}
\* text the user can type as an album name
NameInputs == {"", "Trip", "trip "}

VARIABLES
  storePhotos,    \* AsyncStorage key 'photos': sequence of Photo records
  storeAlbums,    \* AsyncStorage key 'albums': sequence of Album records
  fsDeleted,      \* uris FileSystem.deleteAsync was requested for
  nextId,         \* photo ids generated so far
  nextAlbum,      \* album ids generated so far
  nextEdit,       \* image-manipulator results produced so far
  screen,         \* the screen that has focus
  tasks,          \* async handlers in flight, in the order they started
  photoUri,       \* CameraScreen.photoUri (FALSE: null)
  gallery,        \* GalleryScreen state
  detail,         \* PhotoDetails state
  albumsScr,      \* AlbumsScreen state
  cropParams,     \* ResizableCrop route params
  lastWrite,      \* the last AsyncStorage.setItem that took effect (addedTo: the
                  \* 'photos' value the last savePhoto write replaced)
  removed,        \* uris of the records delete operations removed from 'photos'
  ops             \* handlers invoked so far that write to the store or make a file

vars == <<storePhotos, storeAlbums, fsDeleted, nextId, nextAlbum, nextEdit,
          screen, tasks, photoUri, gallery, detail, albumsScr, cropParams,
          lastWrite, removed, ops>>

\* ------------------------------------------------------------- helpers
Range(s) == {s[i] : i \in 1..Len(s)}

\* Array.prototype.filter
Filter(s, keep(_)) == SelectSeq(s, keep)

\* Array.prototype.map
Map(s, f(_)) == [i \in 1..Len(s) |-> f(s[i])]

\* Array.prototype.includes
Includes(s, x) == \E i \in 1..Len(s) : s[i] = x

\* Array.prototype.findIndex: 0 stands for -1 (indices are 1-based here)
FindIndex(s, p(_)) ==
  IF \E i \in 1..Len(s) : p(s[i])
  THEN CHOOSE i \in 1..Len(s) : p(s[i]) /\ \A j \in 1..(i - 1) : ~p(s[j])
  ELSE 0

\* the value 'undefined' / 'null' of an optional id
None == 0

\* Array.prototype.find over ids; None when nothing matches
FindId(s, p(_)) == IF FindIndex(s, p) = 0 THEN None ELSE s[FindIndex(s, p)]

\* String.prototype.trim on the names the user can type
Trim(n) == IF n = "trip " THEN "trip" ELSE n

\* String.prototype.toLowerCase on the names albums can have
ToLowerCase(n) ==
  IF n = "Trip" THEN "trip"
  ELSE IF n = "My Gallery" THEN "my gallery"
  ELSE n

Ids(photos) == {photos[i].id : i \in 1..Len(photos)}

\* the uri of the file savePhoto copies the capture to, and of an edit result
DocUri(id) == [kind |-> "doc", n |-> id]
EditUri(k) == [kind |-> "edit", n |-> k]
NoUri == [kind |-> "none", n |-> 0]

NoPhoto == [id |-> None, uri |-> NoUri, createdAt |-> 0, caption |-> "", favorite |-> FALSE]

NoAlbum == [id |-> None, name |-> "", photoIds |-> <<>>, coverPhotoId |-> None]

\* ------------------------------------------------- the pure transformations

\* CameraScreen.savePhoto: photos.push({id, uri, createdAt, caption: '', favorite: false})
NewPhoto(id) ==
  [id |-> id, uri |-> DocUri(id), createdAt |-> id, caption |-> "", favorite |-> FALSE]

\* a save that would start from an empty list instead of the parsed one
PushPhotoAlone(photos, id) == <<NewPhoto(id)>>

\* CameraScreen.savePhoto: photos.push(newPhoto) on the parsed list
PushPhoto(photos, id) == Append(photos, NewPhoto(id))

\* PhotoDetails.saveCaption: photos.map(p => p.id === photo.id ? {...p, caption} : p)
MapCaption(photos, id, caption) ==
  [i \in 1..Len(photos) |->
     IF photos[i].id = id THEN [photos[i] EXCEPT !.caption = caption] ELSE photos[i]]

\* a toggle that would build the record anew instead of spreading the persisted one
MapFavoriteRebuilt(photos, id) ==
  [i \in 1..Len(photos) |->
     IF photos[i].id = id THEN [NewPhoto(id) EXCEPT !.favorite = ~photos[i].favorite]
     ELSE photos[i]]

\* PhotoDetails.toggleFavorite: photos.map(p => p.id === photo.id ? {...p, favorite: !p.favorite} : p)
MapFavorite(photos, id) ==
  [i \in 1..Len(photos) |->
     IF photos[i].id = id THEN [photos[i] EXCEPT !.favorite = ~photos[i].favorite]
     ELSE photos[i]]

\* an edit that would keep the original record and add the edited copy under its id
MapUriKeepingOriginal(photos, id, uri) ==
  LET isIt(p) == p.id = id
      hit == Filter(photos, isIt)
  IN photos \o [i \in 1..Len(hit) |-> [hit[i] EXCEPT !.uri = uri]]

\* PhotoDetails.saveEdits, ResizableCrop.handleSave:
\* photos.map(p => p.id === id ? {...p, uri: result.uri} : p)
MapUri(photos, id, uri) ==
  [i \in 1..Len(photos) |->
     IF photos[i].id = id THEN [photos[i] EXCEPT !.uri = uri] ELSE photos[i]]

\* a filter with the comparison inverted
FilterOnlyPhoto(photos, id) == LET isIt(p) == p.id = id IN Filter(photos, isIt)

\* PhotoDetails.deletePhoto: photos.filter(p => p.id !== photo.id)
FilterOutPhoto(photos, id) ==
  LET keep(p) == p.id # id IN Filter(photos, keep)

\* GalleryScreen.deleteSelected: allPhotos.filter(photo => !selectedIds.has(photo.id))
Remaining(allPhotos, selectedIds) ==
  LET keep(p) == ~Includes(selectedIds, p.id) IN Filter(allPhotos, keep)

\* a cascade that would leave every coverPhotoId as it was
CascadeCoverKept(album, deletedIds) == album.coverPhotoId

\* a cascade that would take the album's first id as the new cover, deleted or not
CascadeCoverFirstOfAll(album, deletedIds) ==
  IF album.coverPhotoId # None /\ Includes(deletedIds, album.coverPhotoId)
  THEN album.photoIds[1]
  ELSE album.coverPhotoId

\* GalleryScreen.deleteSelected: the new coverPhotoId of one album
CascadeCover(album, deletedIds) ==
  LET kept(id) == ~Includes(deletedIds, id) IN
  IF album.coverPhotoId # None /\ Includes(deletedIds, album.coverPhotoId)
  THEN FindId(album.photoIds, kept)
  ELSE album.coverPhotoId

\* GalleryScreen.deleteSelected: albums.map(...).filter(album => album.photoIds.length > 0)
CascadeAlbums(albums, deletedIds) ==
  LET kept(id) == ~Includes(deletedIds, id)
      strip(album) == [album EXCEPT !.photoIds = Filter(album.photoIds, kept),
                                    !.coverPhotoId = CascadeCover(album, deletedIds)]
      nonEmpty(album) == Len(album.photoIds) > 0
  IN Filter(Map(albums, strip), nonEmpty)

\* GalleryScreen.createOrUpdateAlbum: albums.findIndex(album =>
\*   album.name.toLowerCase() === trimmedName.toLowerCase())
ExistingAlbumIndex(albums, trimmedName) ==
  LET same(album) == ToLowerCase(album.name) = ToLowerCase(trimmedName)
  IN FindIndex(albums, same)

\* an append that would not leave out the ids the album already has
NewPhotoIdsUnfiltered(existingAlbum, selectedPhotoIds) == selectedPhotoIds

\* GalleryScreen.createOrUpdateAlbum: selectedPhotoIds.filter(id => !existingAlbum.photoIds.includes(id))
NewPhotoIds(existingAlbum, selectedPhotoIds) ==
  LET fresh(id) == ~Includes(existingAlbum.photoIds, id)
  IN Filter(selectedPhotoIds, fresh)

\* selectedPhotoIds[0], undefined for an empty array
First(ids) == IF Len(ids) = 0 THEN None ELSE ids[1]

\* an append that would add the whole selection to the existing album
UpdatedAlbumsAppendingAll(albums, selectedPhotoIds, trimmedName, newId) ==
  LET k == ExistingAlbumIndex(albums, trimmedName) IN
  IF k > 0
  THEN [albums EXCEPT ![k] =
          [albums[k] EXCEPT
             !.photoIds = albums[k].photoIds \o selectedPhotoIds,
             !.coverPhotoId = IF albums[k].coverPhotoId # None
                              THEN albums[k].coverPhotoId
                              ELSE First(selectedPhotoIds)]]
  ELSE Append(albums, [id |-> newId, name |-> trimmedName,
                       photoIds |-> selectedPhotoIds,
                       coverPhotoId |-> First(selectedPhotoIds)])

\* GalleryScreen.createOrUpdateAlbum: the updatedAlbums handed to saveAlbums
\* (not used on the 'No New Photos' path, which returns before saving)
UpdatedAlbums(albums, selectedPhotoIds, trimmedName, newId) ==
  LET k == ExistingAlbumIndex(albums, trimmedName) IN
  IF k > 0
  THEN LET existingAlbum == albums[k]
           newPhotoIds == NewPhotoIds(existingAlbum, selectedPhotoIds)
       IN [albums EXCEPT ![k] =
             [existingAlbum EXCEPT
                !.photoIds = existingAlbum.photoIds \o newPhotoIds,
                !.coverPhotoId = IF existingAlbum.coverPhotoId # None
                                 THEN existingAlbum.coverPhotoId
                                 ELSE First(newPhotoIds)]]
  ELSE Append(albums, [id |-> newId, name |-> trimmedName,
                       photoIds |-> selectedPhotoIds,
                       coverPhotoId |-> First(selectedPhotoIds)])

\* a createOrUpdateAlbum without the early return for an empty newPhotoIds
NoNewPhotosIgnored(albums, selectedPhotoIds, trimmedName) == FALSE

\* GalleryScreen.createOrUpdateAlbum: newPhotoIds.length === 0 for an existing album
NoNewPhotos(albums, selectedPhotoIds, trimmedName) ==
  LET k == ExistingAlbumIndex(albums, trimmedName) IN
  k > 0 /\ Len(NewPhotoIds(albums[k], selectedPhotoIds)) = 0

\* AlbumsScreen Create: [...albums, {id, name: trimmed, photoIds: Array.from(selectedPhotoIds)}]
AppendAlbum(albums, selectedPhotoIds, trimmed, newId) ==
  Append(albums, [id |-> newId, name |-> trimmed, photoIds |-> selectedPhotoIds,
                  coverPhotoId |-> None])

\* AlbumsScreen.getPhotosForAlbum: photos.filter(photo => album.photoIds.includes(photo.id))
getPhotosForAlbum(photos, album) ==
  LET inAlbum(photo) == Includes(album.photoIds, photo.id) IN Filter(photos, inAlbum)

\* Set.prototype add/delete as toggleSelect does it: insertion order is kept
ToggleId(selected, id) ==
  LET other(x) == x # id IN
  IF Includes(selected, id) THEN Filter(selected, other) ELSE Append(selected, id)

\* ------------------------------------------------------------- tasks
\* One async handler in flight.  op: the handler; pc: the await it is suspended at;
\* live: its component is still mounted (setState on an unmounted one is dropped);
\* photo, caption, sel, albums: the closure captured when the handler was invoked;
\* photos: the list read from / about to be written to 'photos'; read: the keys the
\* handler has read with getItem; found: the target id was in the list it read (for
\* deleteSelected, which reads nothing: a selected id was persisted when it was invoked).
BlankTask ==
  [op |-> "none", pc |-> "none", live |-> TRUE, id |-> None, photo |-> NoPhoto,
   caption |-> "", uri |-> NoUri, sel |-> <<>>, photos |-> <<>>, albums |-> <<>>,
   read |-> {}, found |-> TRUE]

RemoveAt(s, i) == [j \in 1..(Len(s) - 1) |-> IF j < i THEN s[j] ELSE s[j + 1]]

\* the handlers of each screen
DetailOps ==
  {"loadDetail", "saveCaption", "toggleFavorite", "deletePhoto", "saveEdits", "cropPhoto",
   "applyBlackAndWhite"}
AlbumsOps == {"loadAlbumsAndPhotos", "create"}
CameraOps == {"savePhoto"}
CropOps == {"handleSave"}

\* the handlers that patch one field of one photo
FieldOps == {"saveCaption", "toggleFavorite", "saveEdits", "handleSave"}
\* the handlers that read 'photos', transform the list and write it back
PhotoRmwOps == FieldOps \cup {"savePhoto", "deletePhoto"}

\* the components whose handlers are `gone` unmount: the handlers keep running, detached
Unmount(ts, gone) ==
  [j \in 1..Len(ts) |-> IF ts[j].op \in gone THEN [ts[j] EXCEPT !.live = FALSE] ELSE ts[j]]

\* GalleryScreen useFocusEffect: loadPhotos() and loadAlbums() are started
FocusLoads ==
  << [BlankTask EXCEPT !.op = "loadPhotos", !.pc = "read"],
     [BlankTask EXCEPT !.op = "loadAlbums", !.pc = "read"] >>

\* alert: the title of the last Alert.alert the gallery raised
BlankGallery ==
  [allPhotos |-> <<>>, albums |-> <<>>, selectedIds |-> <<>>, selectionMode |-> FALSE,
   showActionModal |-> FALSE, showAlbumModal |-> FALSE, albumName |-> "",
   isLoading |-> FALSE, alert |-> "none"]

BlankDetail ==
  [mounted |-> FALSE, id |-> None, photo |-> NoPhoto, caption |-> "", rotation |-> 0,
   hasEdits |-> FALSE, editUri |-> NoUri]

BlankAlbumsScr ==
  [albums |-> <<>>, photos |-> <<>>, loading |-> TRUE, showCreateModal |-> FALSE,
   newAlbumName |-> "", selectedPhotoIds |-> <<>>, selectedAlbum |-> NoAlbum]

NoCrop == [id |-> None, uri |-> NoUri]

NoWrite ==
  [op |-> "none", key |-> "none", read |-> TRUE, found |-> TRUE, id |-> None,
   addedTo |-> <<>>]

\* GalleryScreen useFocusEffect, the synchronous part: the selection is cleared
FocusedGallery(g) == [g EXCEPT !.selectedIds = <<>>, !.selectionMode = FALSE]

Init ==
  /\ storePhotos = <<>>
  /\ storeAlbums = <<>>
  /\ fsDeleted = {}
  /\ nextId = 0
  /\ nextAlbum = 0
  /\ nextEdit = 0
  /\ screen = "gallery"
  /\ tasks = FocusLoads
  /\ photoUri = FALSE
  /\ gallery = BlankGallery
  /\ detail = BlankDetail
  /\ albumsScr = BlankAlbumsScr
  /\ cropParams = NoCrop
  /\ lastWrite = NoWrite
  /\ removed = {}
  /\ ops = 0

\* ------------------------------------------------------------- navigation
\* routing to the gallery from another screen: that screen unmounts, the gallery
\* gets focus; `ts` is the task list the step leaves before the focus loads start
EnterGallery(ts, from) ==
  /\ Len(ts) + 2 <= MaxTasks
  /\ screen' = "gallery"
  /\ tasks' = Unmount(ts, from) \o FocusLoads
  /\ gallery' = FocusedGallery(gallery)
  /\ detail' = BlankDetail
  /\ albumsScr' = BlankAlbumsScr
  /\ cropParams' = NoCrop
  /\ photoUri' = FALSE

AllScreenOps == DetailOps \cup AlbumsOps \cup CameraOps \cup CropOps

\* no RN Modal of the gallery is open (a Modal covers the whole screen)
GalleryFree == screen = "gallery" /\ ~gallery.showActionModal /\ ~gallery.showAlbumModal

\* the back button / back gesture on a pushed screen other than crop
Back ==
  /\ screen \in {"camera", "albums", "detail"}
  /\ EnterGallery(tasks, AllScreenOps)
  /\ UNCHANGED <<storePhotos, storeAlbums, fsDeleted, nextId, nextAlbum, nextEdit,
                 lastWrite, removed, ops, ops>>

\* the back button on the crop screen: the details screen below it shows again
BackFromCrop ==
  /\ screen = "crop"
  /\ screen' = "detail"
  /\ cropParams' = NoCrop
  /\ tasks' = Unmount(tasks, CropOps)
  /\ UNCHANGED <<storePhotos, storeAlbums, fsDeleted, nextId, nextAlbum, nextEdit,
                 photoUri, gallery, detail, albumsScr, lastWrite, removed, ops>>

\* GalleryScreen: the floating camera button, router.push('/camera')
OpenCamera ==
  /\ GalleryFree
  /\ ~gallery.selectionMode
  /\ screen' = "camera"
  /\ UNCHANGED <<storePhotos, storeAlbums, fsDeleted, nextId, nextAlbum, nextEdit,
                 tasks, photoUri, gallery, detail, albumsScr, cropParams, lastWrite,
                 removed, ops>>

\* GalleryScreen.viewAlbums, router.push('/albums'); AlbumsScreen useFocusEffect
\* starts loadAlbumsAndPhotos
viewAlbums ==
  /\ GalleryFree
  /\ Len(gallery.albums) > 0
  /\ ~gallery.selectionMode
  /\ Len(tasks) < MaxTasks
  /\ screen' = "albums"
  /\ albumsScr' = BlankAlbumsScr
  /\ tasks' = Append(tasks, [BlankTask EXCEPT !.op = "loadAlbumsAndPhotos", !.pc = "read"])
  /\ UNCHANGED <<storePhotos, storeAlbums, fsDeleted, nextId, nextAlbum, nextEdit,
                 photoUri, gallery, detail, cropParams, lastWrite, removed, ops>>

\* GalleryScreen.handlePhotoPress outside selection mode: router.push(`/photo/${id}`);
\* PhotoDetails mounts and its effect starts loading the photo
OpenDetail ==
  /\ GalleryFree
  /\ ~gallery.selectionMode
  /\ Len(tasks) < MaxTasks
  /\ \E k \in 1..Len(gallery.allPhotos) :
       /\ detail' = [BlankDetail EXCEPT !.mounted = TRUE, !.id = gallery.allPhotos[k].id]
       /\ tasks' = Append(tasks, [BlankTask EXCEPT !.op = "loadDetail", !.pc = "read",
                                                   !.id = gallery.allPhotos[k].id])
  /\ screen' = "detail"
  /\ UNCHANGED <<storePhotos, storeAlbums, fsDeleted, nextId, nextAlbum, nextEdit,
                 photoUri, gallery, albumsScr, cropParams, lastWrite, removed, ops>>

\* PhotoDetails: the Crop Photo button, router.push('/photo/crop', {uri, id})
OpenCrop ==
  /\ screen = "detail"
  /\ detail.photo # NoPhoto /\ detail.editUri # NoUri
  /\ screen' = "crop"
  /\ cropParams' = [id |-> detail.photo.id, uri |-> detail.photo.uri]
  /\ UNCHANGED <<storePhotos, storeAlbums, fsDeleted, nextId, nextAlbum, nextEdit,
                 tasks, photoUri, gallery, detail, albumsScr, lastWrite, removed, ops>>

\* ------------------------------------------------------------- camera
\* CameraScreen.takePhoto: setPhotoUri(photo.uri)
takePhoto ==
  /\ screen = "camera"
  /\ ~photoUri
  /\ photoUri' = TRUE
  /\ UNCHANGED <<storePhotos, storeAlbums, fsDeleted, nextId, nextAlbum, nextEdit,
                 screen, tasks, gallery, detail, albumsScr, cropParams, lastWrite,
                 removed, ops>>

\* CameraScreen.retakePhoto: setPhotoUri(null)
retakePhoto ==
  /\ screen = "camera"
  /\ photoUri
  /\ photoUri' = FALSE
  /\ UNCHANGED <<storePhotos, storeAlbums, fsDeleted, nextId, nextAlbum, nextEdit,
                 screen, tasks, gallery, detail, albumsScr, cropParams, lastWrite,
                 removed, ops>>

\* CameraScreen.savePhoto up to its getItem: a fresh uuid names the file and the
\* record, the capture is copied, getItem('photos') is issued
savePhoto ==
  /\ screen = "camera"
  /\ photoUri
  /\ ops < MaxOps
  /\ ops' = ops + 1
  /\ Len(tasks) < MaxTasks
  /\ nextId' = nextId + 1
  /\ tasks' = Append(tasks, [BlankTask EXCEPT !.op = "savePhoto", !.pc = "read",
                                              !.id = nextId + 1])
  /\ UNCHANGED <<storePhotos, storeAlbums, fsDeleted, nextAlbum, nextEdit, screen,
                 photoUri, gallery, detail, albumsScr, cropParams, lastWrite, removed>>

\* CameraScreen.savePhoto after its setItem: setPhotoUri(null)
savePhotoDone(i) ==
  /\ tasks[i].op = "savePhoto" /\ tasks[i].pc = "written"
  /\ photoUri' = IF tasks[i].live THEN FALSE ELSE photoUri
  /\ tasks' = RemoveAt(tasks, i)
  /\ UNCHANGED <<storePhotos, storeAlbums, fsDeleted, nextId, nextAlbum, nextEdit,
                 screen, gallery, detail, albumsScr, cropParams, lastWrite, removed, ops>>

\* ------------------------------------------- the read-modify-write of 'photos'
\* what a handler computes from the list getItem('photos') gave it
Transformed(t, photos) ==
  CASE t.op = "savePhoto" -> PushPhoto(photos, t.id)
    [] t.op = "saveCaption" -> MapCaption(photos, t.id, t.caption)
    [] t.op = "toggleFavorite" -> MapFavorite(photos, t.id)
    [] t.op = "deletePhoto" -> FilterOutPhoto(photos, t.id)
    [] t.op \in {"saveEdits", "handleSave"} -> MapUri(photos, t.id, t.uri)

\* getItem('photos') resolves in a handler that rewrites the collection: the handler
\* parses the value, transforms it and issues setItem('photos', ...)
ReadPhotos(i) ==
  /\ tasks[i].op \in PhotoRmwOps /\ tasks[i].pc = "read"
  /\ tasks' = [tasks EXCEPT ![i] =
       [@ EXCEPT !.pc = "write",
                 !.photos = Transformed(tasks[i], storePhotos),
                 !.read = @ \cup {"photos"},
                 !.found = tasks[i].id \in Ids(storePhotos)]]
  /\ UNCHANGED <<storePhotos, storeAlbums, fsDeleted, nextId, nextAlbum, nextEdit,
                 screen, photoUri, gallery, detail, albumsScr, cropParams, lastWrite,
                 removed, ops>>

\* the ids a delete handler means to remove
Targets(t) ==
  CASE t.op = "deletePhoto" -> {t.id}
    [] t.op = "deleteSelected" -> Range(t.sel)
    [] OTHER -> {}

\* a continuation in which deletePhoto too would go on to a second setItem
AfterPhotosWriteThenAlbums(t) ==
  CASE t.op = "saveCaption" -> "done"
    [] t.op \in {"deleteSelected", "deletePhoto"} -> "write2"
    [] OTHER -> "written"

\* what the handler does in the continuation of its setItem('photos', ...)
AfterPhotosWrite(t) ==
  CASE t.op = "saveCaption" -> "done"
    [] t.op = "deleteSelected" -> "write2"
    [] OTHER -> "written"

\* a write that would apply the handler's change to the collection as it is now
WritePhotosMerging(i) ==
  LET t == tasks[i] IN
  /\ t.op \in PhotoRmwOps \cup {"deleteSelected"} /\ t.pc = "write"
  /\ storePhotos' = IF t.op \in PhotoRmwOps THEN Transformed(t, storePhotos) ELSE t.photos
  /\ lastWrite' = [op |-> t.op, key |-> "photos", read |-> "photos" \in t.read,
                   found |-> t.found, id |-> t.id,
                   addedTo |-> IF t.op = "savePhoto" THEN storePhotos
                               ELSE lastWrite.addedTo]
  /\ removed' = removed
  /\ tasks' = IF AfterPhotosWrite(t) = "done" THEN RemoveAt(tasks, i)
              ELSE [tasks EXCEPT ![i] = [@ EXCEPT !.pc = AfterPhotosWrite(t)]]
  /\ UNCHANGED <<storeAlbums, fsDeleted, nextId, nextAlbum, nextEdit, screen, photoUri,
                 gallery, detail, albumsScr, cropParams, ops>>

\* setItem('photos', ...) takes effect: the whole collection is replaced
WritePhotos(i) ==
  LET t == tasks[i] IN
  /\ t.op \in PhotoRmwOps \cup {"deleteSelected"} /\ t.pc = "write"
  /\ storePhotos' = t.photos
  /\ lastWrite' = [op |-> t.op, key |-> "photos", read |-> "photos" \in t.read,
                   found |-> t.found, id |-> t.id,
                   addedTo |-> IF t.op = "savePhoto" THEN storePhotos
                               ELSE lastWrite.addedTo]
  /\ removed' = removed \cup
       {storePhotos[k].uri : k \in {j \in 1..Len(storePhotos) :
            storePhotos[j].id \in Targets(t) /\ storePhotos[j].id \notin Ids(t.photos)}}
  /\ tasks' = IF AfterPhotosWrite(t) = "done" THEN RemoveAt(tasks, i)
              ELSE [tasks EXCEPT ![i] = [@ EXCEPT !.pc = AfterPhotosWrite(t)]]
  /\ UNCHANGED <<storeAlbums, fsDeleted, nextId, nextAlbum, nextEdit, screen, photoUri,
                 gallery, detail, albumsScr, cropParams, ops>>

\* the pc at which a handler's setItem('albums', ...) is pending
AlbumsWritePc(t) == IF t.op = "deleteSelected" THEN "write2" ELSE "write"

\* the list a handler hands to setItem('albums', ...): deleteSelected computes it
\* from the albums of its closure once its photos write is done
AlbumsToSave(t) ==
  IF t.op = "deleteSelected" THEN CascadeAlbums(t.albums, t.sel) ELSE t.albums

\* setItem('albums', ...) takes effect: the whole collection is replaced
WriteAlbums(i) ==
  LET t == tasks[i] IN
  /\ t.op \in {"createOrUpdateAlbum", "deleteSelected", "create"}
  /\ t.pc = AlbumsWritePc(t)
  /\ storeAlbums' = AlbumsToSave(t)
  /\ lastWrite' = [op |-> t.op, key |-> "albums", read |-> "albums" \in t.read,
                   found |-> t.found, id |-> t.id, addedTo |-> lastWrite.addedTo]
  /\ tasks' = [tasks EXCEPT ![i] = [@ EXCEPT !.pc = "written", !.albums = AlbumsToSave(t)]]
  /\ UNCHANGED <<storePhotos, fsDeleted, nextId, nextAlbum, nextEdit, screen, photoUri,
                 gallery, detail, albumsScr, cropParams, removed, ops>>

\* ------------------------------------------------------------- gallery
\* getItem resolves in GalleryScreen.loadPhotos / loadAlbums
LoadRead(i) ==
  /\ tasks[i].op \in {"loadPhotos", "loadAlbums"} /\ tasks[i].pc = "read"
  /\ tasks' = [tasks EXCEPT ![i] =
       [@ EXCEPT !.pc = "got",
                 !.photos = IF tasks[i].op = "loadPhotos" THEN storePhotos ELSE @,
                 !.albums = IF tasks[i].op = "loadAlbums" THEN storeAlbums ELSE @]]
  /\ UNCHANGED <<storePhotos, storeAlbums, fsDeleted, nextId, nextAlbum, nextEdit,
                 screen, photoUri, gallery, detail, albumsScr, cropParams, lastWrite,
                 removed, ops>>

\* GalleryScreen.loadPhotos: setAllPhotos(parsed)
loadPhotos(i) ==
  /\ tasks[i].op = "loadPhotos" /\ tasks[i].pc = "got"
  /\ gallery' = [gallery EXCEPT !.allPhotos = tasks[i].photos]
  /\ tasks' = RemoveAt(tasks, i)
  /\ UNCHANGED <<storePhotos, storeAlbums, fsDeleted, nextId, nextAlbum, nextEdit,
                 screen, photoUri, detail, albumsScr, cropParams, lastWrite, removed, ops>>

\* GalleryScreen.loadAlbums: setAlbums(parsed)
loadAlbums(i) ==
  /\ tasks[i].op = "loadAlbums" /\ tasks[i].pc = "got"
  /\ gallery' = [gallery EXCEPT !.albums = tasks[i].albums]
  /\ tasks' = RemoveAt(tasks, i)
  /\ UNCHANGED <<storePhotos, storeAlbums, fsDeleted, nextId, nextAlbum, nextEdit,
                 screen, photoUri, detail, albumsScr, cropParams, lastWrite, removed, ops>>

GalleryOnly(g) ==
  /\ gallery' = g
  /\ UNCHANGED <<storePhotos, storeAlbums, fsDeleted, nextId, nextAlbum, nextEdit,
                 screen, tasks, photoUri, detail, albumsScr, cropParams, lastWrite,
                 removed, ops>>

\* a Cancel button that would leave selection mode and keep the selected ids
ToggleSelectionModeKeepingSelection ==
  /\ GalleryFree
  /\ GalleryOnly([gallery EXCEPT !.selectionMode = ~@])

\* GalleryScreen: the Select / Cancel button
ToggleSelectionMode ==
  /\ GalleryFree
  /\ GalleryOnly(IF gallery.selectionMode
                 THEN [gallery EXCEPT !.selectionMode = FALSE, !.selectedIds = <<>>]
                 ELSE [gallery EXCEPT !.selectionMode = TRUE])

\* GalleryScreen.handlePhotoPress in selection mode: toggleSelect(id)
toggleSelect ==
  /\ GalleryFree
  /\ gallery.selectionMode
  /\ \E k \in 1..Len(gallery.allPhotos) :
       GalleryOnly([gallery EXCEPT
                      !.selectedIds = ToggleId(@, gallery.allPhotos[k].id)])

\* GalleryScreen.handleSelectionAction (the Actions button shows in selection mode
\* with a non-empty selection)
handleSelectionAction ==
  /\ GalleryFree
  /\ gallery.selectionMode /\ Len(gallery.selectedIds) > 0
  /\ GalleryOnly([gallery EXCEPT !.showActionModal = TRUE])

\* GalleryScreen: Cancel in the action modal
CloseActionModal ==
  /\ screen = "gallery" /\ gallery.showActionModal
  /\ GalleryOnly([gallery EXCEPT !.showActionModal = FALSE])

\* GalleryScreen.handleAddToAlbum
handleAddToAlbum ==
  /\ screen = "gallery" /\ gallery.showActionModal
  /\ GalleryOnly([gallery EXCEPT !.showActionModal = FALSE, !.showAlbumModal = TRUE,
                                 !.albumName = "My Gallery"])

\* GalleryScreen: the album name input (editable while not loading)
setAlbumName ==
  /\ screen = "gallery" /\ gallery.showAlbumModal /\ ~gallery.isLoading
  /\ \E n \in NameInputs : GalleryOnly([gallery EXCEPT !.albumName = n])

\* GalleryScreen: Cancel in the album modal
CloseAlbumModal ==
  /\ screen = "gallery" /\ gallery.showAlbumModal /\ ~gallery.isLoading
  /\ GalleryOnly([gallery EXCEPT !.showAlbumModal = FALSE])

\* GalleryScreen.createOrUpdateAlbum up to its await: everything is computed from
\* the component's state (albums, selectedIds, albumName); on the 'No New Photos'
\* path it returns, otherwise saveAlbums issues setItem('albums', ...)
createOrUpdateAlbum ==
  LET trimmedName == Trim(gallery.albumName)
      selectedPhotoIds == gallery.selectedIds
      isNew == ExistingAlbumIndex(gallery.albums, trimmedName) = 0
  IN
  /\ screen = "gallery" /\ gallery.showAlbumModal
  /\ ~gallery.isLoading /\ trimmedName # ""
  /\ IF NoNewPhotos(gallery.albums, selectedPhotoIds, trimmedName)
     THEN /\ tasks' = tasks
          /\ gallery' = [gallery EXCEPT !.isLoading = FALSE, !.alert = "No New Photos"]
          /\ nextAlbum' = nextAlbum
          /\ ops' = ops
     ELSE /\ Len(tasks) < MaxTasks
          /\ ops < MaxOps
          /\ ops' = ops + 1
          /\ nextAlbum' = IF isNew THEN nextAlbum + 1 ELSE nextAlbum
          /\ gallery' = [gallery EXCEPT !.isLoading = TRUE]
          /\ tasks' = Append(tasks,
               [BlankTask EXCEPT
                  !.op = "createOrUpdateAlbum", !.pc = "write",
                  !.sel = selectedPhotoIds,
                  !.albums = UpdatedAlbums(gallery.albums, selectedPhotoIds,
                                           trimmedName, nextAlbum + 1)])
  /\ UNCHANGED <<storePhotos, storeAlbums, fsDeleted, nextId, nextEdit, screen,
                 photoUri, detail, albumsScr, cropParams, lastWrite, removed>>

\* GalleryScreen.createOrUpdateAlbum after saveAlbums: setAlbums(albumsToSave), the
\* modal and the selection are reset, finally setIsLoading(false)
createOrUpdateAlbumDone(i) ==
  /\ tasks[i].op = "createOrUpdateAlbum" /\ tasks[i].pc = "written"
  /\ gallery' = [gallery EXCEPT !.albums = tasks[i].albums, !.showAlbumModal = FALSE,
                                !.selectedIds = <<>>, !.selectionMode = FALSE,
                                !.albumName = "", !.isLoading = FALSE,
                                !.alert = "Success"]
  /\ tasks' = RemoveAt(tasks, i)
  /\ UNCHANGED <<storePhotos, storeAlbums, fsDeleted, nextId, nextAlbum, nextEdit,
                 screen, photoUri, detail, albumsScr, cropParams, lastWrite, removed, ops>>

\* GalleryScreen.createOrUpdateAlbum called with a blank album name (the Create
\* button is disabled then, the handler checks again): it alerts and returns before
\* setIsLoading(true)
createOrUpdateAlbumEmptyName ==
  /\ screen = "gallery" /\ gallery.showAlbumModal
  /\ ~gallery.isLoading /\ Trim(gallery.albumName) = ""
  /\ GalleryOnly([gallery EXCEPT !.alert = "Album Name Required"])

\* GalleryScreen.confirmDelete and the alert's Delete button: deleteSelected up to
\* its first await; remaining is computed from the component's allPhotos and
\* setItem('photos', remaining) is issued
deleteSelected ==
  /\ screen = "gallery" /\ gallery.showActionModal
  /\ Len(tasks) < MaxTasks
  /\ ops < MaxOps
  /\ ops' = ops + 1
  /\ tasks' = Append(tasks,
       [BlankTask EXCEPT
          !.op = "deleteSelected", !.pc = "write",
          !.sel = gallery.selectedIds,
          !.found = Range(gallery.selectedIds) \cap Ids(storePhotos) # {},
          !.photos = Remaining(gallery.allPhotos, gallery.selectedIds),
          !.albums = gallery.albums])
  /\ UNCHANGED <<storePhotos, storeAlbums, fsDeleted, nextId, nextAlbum, nextEdit,
                 screen, photoUri, gallery, detail, albumsScr, cropParams, lastWrite,
                 removed>>

\* GalleryScreen.deleteSelected after saveAlbums: setAlbums(updatedAlbums),
\* setAllPhotos(remaining), the selection and the action modal are reset
deleteSelectedDone(i) ==
  /\ tasks[i].op = "deleteSelected" /\ tasks[i].pc = "written"
  /\ gallery' = [gallery EXCEPT !.albums = tasks[i].albums,
                                !.allPhotos = tasks[i].photos,
                                !.selectedIds = <<>>, !.selectionMode = FALSE,
                                !.showActionModal = FALSE, !.alert = "Deleted"]
  /\ tasks' = RemoveAt(tasks, i)
  /\ UNCHANGED <<storePhotos, storeAlbums, fsDeleted, nextId, nextAlbum, nextEdit,
                 screen, photoUri, detail, albumsScr, cropParams, lastWrite, removed, ops>>

\* ------------------------------------------------------------- photo details
\* the details screen renders its buttons once photo and editUri are set
DetailReady == screen = "detail" /\ detail.photo # NoPhoto /\ detail.editUri # NoUri

DetailOnly(d) ==
  /\ detail' = d
  /\ UNCHANGED <<storePhotos, storeAlbums, fsDeleted, nextId, nextAlbum, nextEdit,
                 screen, tasks, photoUri, gallery, albumsScr, cropParams, lastWrite,
                 removed, ops>>

\* a handler of the details screen is invoked: task t starts
DetailStart(t) ==
  /\ DetailReady
  /\ Len(tasks) < MaxTasks
  /\ ops < MaxOps
  /\ ops' = ops + 1
  /\ tasks' = Append(tasks, t)
  /\ UNCHANGED <<storePhotos, storeAlbums, nextId, nextAlbum, screen, photoUri,
                 gallery, detail, albumsScr, cropParams, lastWrite, removed>>

\* getItem('photos') resolves in the mount effect of PhotoDetails
LoadDetailRead(i) ==
  /\ tasks[i].op = "loadDetail" /\ tasks[i].pc = "read"
  /\ tasks' = [tasks EXCEPT ![i] = [@ EXCEPT !.pc = "got", !.photos = storePhotos]]
  /\ UNCHANGED <<storePhotos, storeAlbums, fsDeleted, nextId, nextAlbum, nextEdit,
                 screen, photoUri, gallery, detail, albumsScr, cropParams, lastWrite,
                 removed, ops>>

\* PhotoDetails mount effect: found = photos.find(p => p.id === id); if found,
\* setPhoto(found), setCaption(found.caption), setEditUri(found.uri)
loadDetail(i) ==
  LET t == tasks[i]
      isIt(p) == p.id = t.id
      k == FindIndex(t.photos, isIt)
  IN
  /\ t.op = "loadDetail" /\ t.pc = "got"
  /\ detail' = IF t.live /\ k > 0
               THEN [detail EXCEPT !.photo = t.photos[k], !.caption = t.photos[k].caption,
                                   !.editUri = t.photos[k].uri]
               ELSE detail
  /\ tasks' = RemoveAt(tasks, i)
  /\ UNCHANGED <<storePhotos, storeAlbums, fsDeleted, nextId, nextAlbum, nextEdit,
                 screen, photoUri, gallery, albumsScr, cropParams, lastWrite, removed, ops>>

\* PhotoDetails: the caption input
setCaption ==
  /\ DetailReady
  /\ \E c \in Captions : DetailOnly([detail EXCEPT !.caption = c])

\* PhotoDetails.saveCaption up to its getItem
saveCaption ==
  /\ DetailStart([BlankTask EXCEPT !.op = "saveCaption", !.pc = "read",
                                   !.id = detail.photo.id, !.photo = detail.photo,
                                   !.caption = detail.caption])
  /\ UNCHANGED <<fsDeleted, nextEdit>>

\* PhotoDetails.toggleFavorite up to its getItem
toggleFavorite ==
  /\ DetailStart([BlankTask EXCEPT !.op = "toggleFavorite", !.pc = "read",
                                   !.id = detail.photo.id, !.photo = detail.photo])
  /\ UNCHANGED <<fsDeleted, nextEdit>>

\* PhotoDetails.toggleFavorite after its setItem:
\* setPhoto({...photo, favorite: !photo.favorite}) with the photo of its closure
toggleFavoriteDone(i) ==
  LET t == tasks[i] IN
  /\ t.op = "toggleFavorite" /\ t.pc = "written"
  /\ detail' = IF t.live THEN [detail EXCEPT !.photo = [t.photo EXCEPT !.favorite = ~@]]
               ELSE detail
  /\ tasks' = RemoveAt(tasks, i)
  /\ UNCHANGED <<storePhotos, storeAlbums, fsDeleted, nextId, nextAlbum, nextEdit,
                 screen, photoUri, gallery, albumsScr, cropParams, lastWrite, removed, ops>>

\* PhotoDetails.deletePhoto up to its getItem: FileSystem.deleteAsync(photo.uri)
\* is requested first
deletePhoto ==
  /\ DetailStart([BlankTask EXCEPT !.op = "deletePhoto", !.pc = "read",
                                   !.id = detail.photo.id, !.photo = detail.photo])
  /\ fsDeleted' = fsDeleted \cup {detail.photo.uri}
  /\ UNCHANGED nextEdit

\* router.back() / router.replace('/gallery') called by a handler that has finished:
\* `rest` is the task list without that handler
RouteAway(rest, replace) ==
  IF screen = "gallery" \/ (screen = "crop" /\ ~replace)
  THEN /\ tasks' = IF screen = "crop" THEN Unmount(rest, CropOps) ELSE rest
       /\ screen' = IF screen = "crop" THEN "detail" ELSE screen
       /\ cropParams' = NoCrop
       /\ UNCHANGED <<gallery, detail, albumsScr, photoUri, ops>>
  ELSE EnterGallery(rest, AllScreenOps)

\* PhotoDetails.deletePhoto after its setItem: router.back()
deletePhotoDone(i) ==
  /\ tasks[i].op = "deletePhoto" /\ tasks[i].pc = "written"
  /\ RouteAway(RemoveAt(tasks, i), FALSE)
  /\ UNCHANGED <<storePhotos, storeAlbums, fsDeleted, nextId, nextAlbum, nextEdit,
                 lastWrite, removed, ops, ops>>

\* PhotoDetails.rotatePhoto
rotatePhoto ==
  /\ DetailReady
  /\ DetailOnly([detail EXCEPT !.rotation = (@ + 90) % 360, !.hasEdits = TRUE])

\* PhotoDetails.cropPhoto up to its await: manipulateAsync(editUri, crop) is started
cropPhoto ==
  /\ DetailStart([BlankTask EXCEPT !.op = "cropPhoto", !.pc = "await",
                                   !.uri = EditUri(nextEdit + 1)])
  /\ nextEdit' = nextEdit + 1
  /\ UNCHANGED fsDeleted

\* PhotoDetails.cropPhoto after its await: setEditUri(cropped.uri), setHasEdits(true)
cropPhotoDone(i) ==
  LET t == tasks[i] IN
  /\ t.op = "cropPhoto" /\ t.pc = "await"
  /\ detail' = IF t.live THEN [detail EXCEPT !.editUri = t.uri, !.hasEdits = TRUE]
               ELSE detail
  /\ tasks' = RemoveAt(tasks, i)
  /\ UNCHANGED <<storePhotos, storeAlbums, fsDeleted, nextId, nextAlbum, nextEdit,
                 screen, photoUri, gallery, albumsScr, cropParams, lastWrite, removed, ops>>

\* PhotoDetails.applyBlackAndWhite up to its awaits: getInfoAsync and manipulateAsync
\* on editUri, or the copyAsync of the fallback, produce a new file
applyBlackAndWhite ==
  /\ DetailStart([BlankTask EXCEPT !.op = "applyBlackAndWhite", !.pc = "await",
                                   !.uri = EditUri(nextEdit + 1)])
  /\ nextEdit' = nextEdit + 1
  /\ UNCHANGED fsDeleted

\* PhotoDetails.applyBlackAndWhite after manipulateAsync, or after the copyAsync of
\* its fallback: setEditUri(result.uri / newUri), setHasEdits(true)
applyBlackAndWhiteDone(i) ==
  LET t == tasks[i] IN
  /\ t.op = "applyBlackAndWhite" /\ t.pc = "await"
  /\ detail' = IF t.live THEN [detail EXCEPT !.editUri = t.uri, !.hasEdits = TRUE]
               ELSE detail
  /\ tasks' = RemoveAt(tasks, i)
  /\ UNCHANGED <<storePhotos, storeAlbums, fsDeleted, nextId, nextAlbum, nextEdit,
                 screen, photoUri, gallery, albumsScr, cropParams, lastWrite, removed, ops>>

\* PhotoDetails.applyBlackAndWhite when the fallback fails as well: an 'Error' alert,
\* no state of the screen is set
applyBlackAndWhiteFails(i) ==
  /\ tasks[i].op = "applyBlackAndWhite" /\ tasks[i].pc = "await"
  /\ tasks' = RemoveAt(tasks, i)
  /\ UNCHANGED <<storePhotos, storeAlbums, fsDeleted, nextId, nextAlbum, nextEdit,
                 screen, photoUri, gallery, detail, albumsScr, cropParams, lastWrite,
                 removed, ops>>

\* PhotoDetails.saveEdits up to its getItem (the button shows while hasEdits):
\* manipulateAsync(editUri, rotate) gives a new file
saveEdits ==
  /\ detail.hasEdits
  /\ DetailStart([BlankTask EXCEPT !.op = "saveEdits", !.pc = "read",
                                   !.id = detail.photo.id, !.photo = detail.photo,
                                   !.uri = EditUri(nextEdit + 1)])
  /\ nextEdit' = nextEdit + 1
  /\ UNCHANGED fsDeleted

\* a saveEdits that would leave the rotation it has just applied in place
saveEditsDoneKeepingRotation(i) ==
  LET t == tasks[i] IN
  /\ t.op = "saveEdits" /\ t.pc = "written"
  /\ detail' = IF t.live
               THEN [detail EXCEPT !.photo = [t.photo EXCEPT !.uri = t.uri],
                                   !.editUri = t.uri, !.hasEdits = FALSE]
               ELSE detail
  /\ tasks' = RemoveAt(tasks, i)
  /\ UNCHANGED <<storePhotos, storeAlbums, fsDeleted, nextId, nextAlbum, nextEdit,
                 screen, photoUri, gallery, albumsScr, cropParams, lastWrite, removed, ops>>

\* PhotoDetails.saveEdits after its setItem: setPhoto({...photo, uri}),
\* setRotation(0), setEditUri(uri), setHasEdits(false)
saveEditsDone(i) ==
  LET t == tasks[i] IN
  /\ t.op = "saveEdits" /\ t.pc = "written"
  /\ detail' = IF t.live
               THEN [detail EXCEPT !.photo = [t.photo EXCEPT !.uri = t.uri],
                                   !.rotation = 0, !.editUri = t.uri, !.hasEdits = FALSE]
               ELSE detail
  /\ tasks' = RemoveAt(tasks, i)
  /\ UNCHANGED <<storePhotos, storeAlbums, fsDeleted, nextId, nextAlbum, nextEdit,
                 screen, photoUri, gallery, albumsScr, cropParams, lastWrite, removed, ops>>

\* ------------------------------------------------------------- crop
\* ResizableCrop.handleSave up to its getItem: manipulateAsync(uri, crop) gives a
\* new file
handleSave ==
  /\ screen = "crop"
  /\ ops < MaxOps
  /\ ops' = ops + 1
  /\ Len(tasks) < MaxTasks
  /\ nextEdit' = nextEdit + 1
  /\ tasks' = Append(tasks, [BlankTask EXCEPT !.op = "handleSave", !.pc = "read",
                                              !.id = cropParams.id,
                                              !.uri = EditUri(nextEdit + 1)])
  /\ UNCHANGED <<storePhotos, storeAlbums, fsDeleted, nextId, nextAlbum, screen,
                 photoUri, gallery, detail, albumsScr, cropParams, lastWrite, removed>>

\* ResizableCrop.handleSave after its setItem: router.replace('/gallery')
handleSaveDone(i) ==
  /\ tasks[i].op = "handleSave" /\ tasks[i].pc = "written"
  /\ RouteAway(RemoveAt(tasks, i), TRUE)
  /\ UNCHANGED <<storePhotos, storeAlbums, fsDeleted, nextId, nextAlbum, nextEdit,
                 lastWrite, removed, ops, ops>>

\* ------------------------------------------------------------- albums screen
AlbumsOnly(a) ==
  /\ albumsScr' = a
  /\ UNCHANGED <<storePhotos, storeAlbums, fsDeleted, nextId, nextAlbum, nextEdit,
                 screen, tasks, photoUri, gallery, detail, cropParams, lastWrite,
                 removed, ops>>

\* the album list (with its Create Album button) is rendered
AlbumList == screen = "albums" /\ ~albumsScr.loading /\ albumsScr.selectedAlbum = NoAlbum

\* AlbumsScreen.loadAlbumsAndPhotos: getItem('albums') resolves, then getItem('photos')
LoadAlbumsAndPhotosRead(i) ==
  LET t == tasks[i] IN
  /\ t.op = "loadAlbumsAndPhotos" /\ t.pc \in {"read", "read2"}
  /\ tasks' = [tasks EXCEPT ![i] =
       IF t.pc = "read" THEN [t EXCEPT !.pc = "read2", !.albums = storeAlbums]
       ELSE [t EXCEPT !.pc = "got", !.photos = storePhotos]]
  /\ UNCHANGED <<storePhotos, storeAlbums, fsDeleted, nextId, nextAlbum, nextEdit,
                 screen, photoUri, gallery, detail, albumsScr, cropParams, lastWrite,
                 removed, ops>>

\* AlbumsScreen.loadAlbumsAndPhotos: setAlbums, setPhotos, finally setLoading(false)
loadAlbumsAndPhotos(i) ==
  LET t == tasks[i] IN
  /\ t.op = "loadAlbumsAndPhotos" /\ t.pc = "got"
  /\ albumsScr' = IF t.live
                  THEN [albumsScr EXCEPT !.albums = t.albums, !.photos = t.photos,
                                         !.loading = FALSE]
                  ELSE albumsScr
  /\ tasks' = RemoveAt(tasks, i)
  /\ UNCHANGED <<storePhotos, storeAlbums, fsDeleted, nextId, nextAlbum, nextEdit,
                 screen, photoUri, gallery, detail, cropParams, lastWrite, removed, ops>>

\* AlbumsScreen: the Create Album button opens the modal with a blank form
OpenCreateModal ==
  /\ AlbumList
  /\ AlbumsOnly([albumsScr EXCEPT !.newAlbumName = "", !.selectedPhotoIds = <<>>,
                                  !.showCreateModal = TRUE])

\* AlbumsScreen: the album name input of the create modal
setNewAlbumName ==
  /\ AlbumList /\ albumsScr.showCreateModal
  /\ \E n \in NameInputs : AlbumsOnly([albumsScr EXCEPT !.newAlbumName = n])

\* AlbumsScreen: a photo of the create modal is pressed
togglePhoto ==
  /\ AlbumList /\ albumsScr.showCreateModal
  /\ \E k \in 1..Len(albumsScr.photos) :
       AlbumsOnly([albumsScr EXCEPT
                     !.selectedPhotoIds = ToggleId(@, albumsScr.photos[k].id)])

\* AlbumsScreen: Cancel in the create modal
CancelCreate ==
  /\ AlbumList /\ albumsScr.showCreateModal
  /\ AlbumsOnly([albumsScr EXCEPT !.showCreateModal = FALSE])

\* AlbumsScreen Create onPress up to its await: the new album is appended to the
\* component's albums and setItem('albums', ...) is issued
create ==
  LET trimmed == Trim(albumsScr.newAlbumName) IN
  /\ AlbumList /\ albumsScr.showCreateModal
  /\ ~(trimmed = "" \/ Len(albumsScr.selectedPhotoIds) = 0)
  /\ ops < MaxOps
  /\ ops' = ops + 1
  /\ Len(tasks) < MaxTasks
  /\ nextAlbum' = nextAlbum + 1
  /\ tasks' = Append(tasks,
       [BlankTask EXCEPT
          !.op = "create", !.pc = "write", !.sel = albumsScr.selectedPhotoIds,
          !.albums = AppendAlbum(albumsScr.albums, albumsScr.selectedPhotoIds,
                                 trimmed, nextAlbum + 1)])
  /\ UNCHANGED <<storePhotos, storeAlbums, fsDeleted, nextId, nextEdit, screen,
                 photoUri, gallery, detail, albumsScr, cropParams, lastWrite, removed>>

\* AlbumsScreen Create onPress after its setItem: setAlbums(updatedAlbums),
\* setShowCreateModal(false)
createDone(i) ==
  LET t == tasks[i] IN
  /\ t.op = "create" /\ t.pc = "written"
  /\ albumsScr' = IF t.live
                  THEN [albumsScr EXCEPT !.albums = t.albums, !.showCreateModal = FALSE]
                  ELSE albumsScr
  /\ tasks' = RemoveAt(tasks, i)
  /\ UNCHANGED <<storePhotos, storeAlbums, fsDeleted, nextId, nextAlbum, nextEdit,
                 screen, photoUri, gallery, detail, cropParams, lastWrite, removed, ops>>

\* AlbumsScreen: an album of the list is pressed, setSelectedAlbum(item)
SelectAlbum ==
  /\ AlbumList /\ ~albumsScr.showCreateModal
  /\ \E k \in 1..Len(albumsScr.albums) :
       AlbumsOnly([albumsScr EXCEPT !.selectedAlbum = albumsScr.albums[k]])

\* AlbumsScreen: the back arrow of the album view, setSelectedAlbum(null)
CloseAlbum ==
  /\ screen = "albums" /\ albumsScr.selectedAlbum # NoAlbum
  /\ AlbumsOnly([albumsScr EXCEPT !.selectedAlbum = NoAlbum])

\* AlbumsScreen: the photos the album view renders
albumPhotos == getPhotosForAlbum(albumsScr.photos, albumsScr.selectedAlbum)

\* ------------------------------------------------------------- rejections
\* The promise a handler awaits before its write rejects, or JSON.parse throws on
\* the value read (getItem, and the copyAsync / deleteAsync / manipulateAsync the
\* handler awaits before it).  Control goes to the handler's catch block, which
\* logs; no setState of the try block runs.  loadAlbumsAndPhotos also runs its
\* finally (setLoading(false)); the mount effect of PhotoDetails and the Create
\* button of AlbumsScreen have no catch and the rejection is left unhandled.
getItemRejects(i) ==
  LET t == tasks[i] IN
  /\ t.pc \in {"read", "read2", "await"}
  /\ tasks' = RemoveAt(tasks, i)
  /\ albumsScr' = IF t.op = "loadAlbumsAndPhotos" /\ t.live
                  THEN [albumsScr EXCEPT !.loading = FALSE]
                  ELSE albumsScr
  /\ UNCHANGED <<storePhotos, storeAlbums, fsDeleted, nextId, nextAlbum, nextEdit,
                 screen, photoUri, gallery, detail, cropParams, lastWrite, removed, ops>>

\* a rejected setItem that would put the in-memory photos back into the store
setItemRejectsRestoring(i) ==
  LET t == tasks[i] IN
  /\ t.pc \in {"write", "write2"}
  /\ tasks' = RemoveAt(tasks, i)
  /\ storePhotos' = IF t.op = "deleteSelected" THEN gallery.allPhotos ELSE storePhotos
  /\ gallery' = IF t.op \in {"deleteSelected", "createOrUpdateAlbum"}
                THEN [gallery EXCEPT !.alert = "Error"] ELSE gallery
  /\ UNCHANGED <<storeAlbums, fsDeleted, nextId, nextAlbum, nextEdit, screen,
                 photoUri, detail, albumsScr, cropParams, lastWrite, removed, ops>>

\* a rejected setItem after which createOrUpdateAlbum would not run its finally
setItemRejectsWithoutFinally(i) ==
  LET t == tasks[i] IN
  /\ t.pc \in {"write", "write2"}
  /\ tasks' = RemoveAt(tasks, i)
  /\ gallery' = CASE t.op = "deleteSelected" ->
                      [gallery EXCEPT !.showActionModal = FALSE, !.alert = "Error"]
                  [] t.op = "createOrUpdateAlbum" ->
                      [gallery EXCEPT !.alert = "Error"]
                  [] OTHER -> gallery
  /\ UNCHANGED <<storePhotos, storeAlbums, fsDeleted, nextId, nextAlbum, nextEdit,
                 screen, photoUri, detail, albumsScr, cropParams, lastWrite, removed, ops>>

\* The setItem a handler awaits rejects: the collection keeps its value.  The catch
\* block of deleteSelected alerts and closes the action modal (saveAlbums rethrows
\* into it as well); createOrUpdateAlbum alerts and its finally clears isLoading;
\* the other handlers only log.
setItemRejects(i) ==
  LET t == tasks[i] IN
  /\ t.pc \in {"write", "write2"}
  /\ tasks' = RemoveAt(tasks, i)
  /\ gallery' = CASE t.op = "deleteSelected" ->
                      [gallery EXCEPT !.showActionModal = FALSE, !.alert = "Error"]
                  [] t.op = "createOrUpdateAlbum" ->
                      [gallery EXCEPT !.isLoading = FALSE, !.alert = "Error"]
                  [] OTHER -> gallery
  /\ UNCHANGED <<storePhotos, storeAlbums, fsDeleted, nextId, nextAlbum, nextEdit,
                 screen, photoUri, detail, albumsScr, cropParams, lastWrite, removed, ops>>

\* ------------------------------------------------------------- specification
\* the whole application: handlers overlap freely
Next ==
  \/ Back
  \/ BackFromCrop
  \/ OpenCamera
  \/ viewAlbums
  \/ OpenDetail
  \/ OpenCrop
  \/ takePhoto
  \/ retakePhoto
  \/ savePhoto
  \/ ToggleSelectionMode
  \/ toggleSelect
  \/ handleSelectionAction
  \/ CloseActionModal
  \/ handleAddToAlbum
  \/ setAlbumName
  \/ CloseAlbumModal
  \/ createOrUpdateAlbum
  \/ deleteSelected
  \/ setCaption
  \/ saveCaption
  \/ toggleFavorite
  \/ deletePhoto
  \/ rotatePhoto
  \/ cropPhoto
  \/ applyBlackAndWhite
  \/ saveEdits
  \/ handleSave
  \/ OpenCreateModal
  \/ setNewAlbumName
  \/ togglePhoto
  \/ CancelCreate
  \/ create
  \/ SelectAlbum
  \/ CloseAlbum
  \/ \E i \in 1..Len(tasks) : ReadPhotos(i)
  \/ \E i \in 1..Len(tasks) : WritePhotos(i)
  \/ \E i \in 1..Len(tasks) : WriteAlbums(i)
  \/ \E i \in 1..Len(tasks) : savePhotoDone(i)
  \/ \E i \in 1..Len(tasks) : LoadRead(i)
  \/ \E i \in 1..Len(tasks) : loadPhotos(i)
  \/ \E i \in 1..Len(tasks) : loadAlbums(i)
  \/ \E i \in 1..Len(tasks) : createOrUpdateAlbumDone(i)
  \/ \E i \in 1..Len(tasks) : deleteSelectedDone(i)
  \/ \E i \in 1..Len(tasks) : LoadDetailRead(i)
  \/ \E i \in 1..Len(tasks) : loadDetail(i)
  \/ \E i \in 1..Len(tasks) : toggleFavoriteDone(i)
  \/ \E i \in 1..Len(tasks) : deletePhotoDone(i)
  \/ \E i \in 1..Len(tasks) : cropPhotoDone(i)
  \/ \E i \in 1..Len(tasks) : applyBlackAndWhiteDone(i)
  \/ \E i \in 1..Len(tasks) : applyBlackAndWhiteFails(i)
  \/ \E i \in 1..Len(tasks) : saveEditsDone(i)
  \/ \E i \in 1..Len(tasks) : handleSaveDone(i)
  \/ \E i \in 1..Len(tasks) : LoadAlbumsAndPhotosRead(i)
  \/ \E i \in 1..Len(tasks) : loadAlbumsAndPhotos(i)
  \/ \E i \in 1..Len(tasks) : createDone(i)
  \/ \E i \in 1..Len(tasks) : getItemRejects(i)
  \/ \E i \in 1..Len(tasks) : setItemRejects(i)

Spec == Init /\ [][Next]_vars

\* no handler is in flight
Idle == tasks = <<>>

\* the user waits for every handler to finish before the next press
NextSeq ==
  \/ Idle /\ Back
  \/ Idle /\ BackFromCrop
  \/ Idle /\ OpenCamera
  \/ Idle /\ viewAlbums
  \/ Idle /\ OpenDetail
  \/ Idle /\ OpenCrop
  \/ Idle /\ takePhoto
  \/ Idle /\ retakePhoto
  \/ Idle /\ savePhoto
  \/ Idle /\ ToggleSelectionMode
  \/ Idle /\ toggleSelect
  \/ Idle /\ handleSelectionAction
  \/ Idle /\ CloseActionModal
  \/ Idle /\ handleAddToAlbum
  \/ Idle /\ setAlbumName
  \/ Idle /\ CloseAlbumModal
  \/ Idle /\ createOrUpdateAlbum
  \/ Idle /\ deleteSelected
  \/ Idle /\ setCaption
  \/ Idle /\ saveCaption
  \/ Idle /\ toggleFavorite
  \/ Idle /\ deletePhoto
  \/ Idle /\ rotatePhoto
  \/ Idle /\ cropPhoto
  \/ Idle /\ saveEdits
  \/ Idle /\ handleSave
  \/ Idle /\ OpenCreateModal
  \/ Idle /\ setNewAlbumName
  \/ Idle /\ togglePhoto
  \/ Idle /\ CancelCreate
  \/ Idle /\ create
  \/ Idle /\ SelectAlbum
  \/ Idle /\ CloseAlbum
  \/ \E i \in 1..Len(tasks) : ReadPhotos(i)
  \/ \E i \in 1..Len(tasks) : WritePhotos(i)
  \/ \E i \in 1..Len(tasks) : WriteAlbums(i)
  \/ \E i \in 1..Len(tasks) : savePhotoDone(i)
  \/ \E i \in 1..Len(tasks) : LoadRead(i)
  \/ \E i \in 1..Len(tasks) : loadPhotos(i)
  \/ \E i \in 1..Len(tasks) : loadAlbums(i)
  \/ \E i \in 1..Len(tasks) : createOrUpdateAlbumDone(i)
  \/ \E i \in 1..Len(tasks) : deleteSelectedDone(i)
  \/ \E i \in 1..Len(tasks) : LoadDetailRead(i)
  \/ \E i \in 1..Len(tasks) : loadDetail(i)
  \/ \E i \in 1..Len(tasks) : toggleFavoriteDone(i)
  \/ \E i \in 1..Len(tasks) : deletePhotoDone(i)
  \/ \E i \in 1..Len(tasks) : cropPhotoDone(i)
  \/ \E i \in 1..Len(tasks) : saveEditsDone(i)
  \/ \E i \in 1..Len(tasks) : handleSaveDone(i)
  \/ \E i \in 1..Len(tasks) : LoadAlbumsAndPhotosRead(i)
  \/ \E i \in 1..Len(tasks) : loadAlbumsAndPhotos(i)
  \/ \E i \in 1..Len(tasks) : createDone(i)

SpecSeq == Init /\ [][NextSeq]_vars

\* the single-collection operations, one at a time, where any awaited getItem or
\* setItem may reject (the two-collection cascade delete is in SpecCascadeFault)
NextFault ==
  \/ Idle /\ Back
  \/ Idle /\ BackFromCrop
  \/ Idle /\ OpenCamera
  \/ Idle /\ viewAlbums
  \/ Idle /\ OpenDetail
  \/ Idle /\ OpenCrop
  \/ Idle /\ takePhoto
  \/ Idle /\ retakePhoto
  \/ Idle /\ ops < MaxFaultOps /\ savePhoto
  \/ Idle /\ ToggleSelectionMode
  \/ Idle /\ toggleSelect
  \/ Idle /\ handleSelectionAction
  \/ Idle /\ CloseActionModal
  \/ Idle /\ handleAddToAlbum
  \/ Idle /\ setAlbumName
  \/ Idle /\ CloseAlbumModal
  \/ Idle /\ ops < MaxFaultOps /\ createOrUpdateAlbum
  \/ Idle /\ setCaption
  \/ Idle /\ ops < MaxFaultOps /\ saveCaption
  \/ Idle /\ ops < MaxFaultOps /\ toggleFavorite
  \/ Idle /\ ops < MaxFaultOps /\ deletePhoto
  \/ Idle /\ rotatePhoto
  \/ Idle /\ ops < MaxFaultOps /\ cropPhoto
  \/ Idle /\ ops < MaxFaultOps /\ saveEdits
  \/ Idle /\ ops < MaxFaultOps /\ handleSave
  \/ Idle /\ OpenCreateModal
  \/ Idle /\ setNewAlbumName
  \/ Idle /\ togglePhoto
  \/ Idle /\ CancelCreate
  \/ Idle /\ ops < MaxFaultOps /\ create
  \/ \E i \in 1..Len(tasks) : ReadPhotos(i)
  \/ \E i \in 1..Len(tasks) : WritePhotos(i)
  \/ \E i \in 1..Len(tasks) : WriteAlbums(i)
  \/ \E i \in 1..Len(tasks) : savePhotoDone(i)
  \/ \E i \in 1..Len(tasks) : LoadRead(i)
  \/ \E i \in 1..Len(tasks) : loadPhotos(i)
  \/ \E i \in 1..Len(tasks) : loadAlbums(i)
  \/ \E i \in 1..Len(tasks) : createOrUpdateAlbumDone(i)
  \/ \E i \in 1..Len(tasks) : LoadDetailRead(i)
  \/ \E i \in 1..Len(tasks) : loadDetail(i)
  \/ \E i \in 1..Len(tasks) : toggleFavoriteDone(i)
  \/ \E i \in 1..Len(tasks) : deletePhotoDone(i)
  \/ \E i \in 1..Len(tasks) : cropPhotoDone(i)
  \/ \E i \in 1..Len(tasks) : saveEditsDone(i)
  \/ \E i \in 1..Len(tasks) : handleSaveDone(i)
  \/ \E i \in 1..Len(tasks) : LoadAlbumsAndPhotosRead(i)
  \/ \E i \in 1..Len(tasks) : loadAlbumsAndPhotos(i)
  \/ \E i \in 1..Len(tasks) : createDone(i)
  \/ \E i \in 1..Len(tasks) : getItemRejects(i)
  \/ \E i \in 1..Len(tasks) : setItemRejects(i)

\* the application launched over what an earlier run persisted: nothing, one photo,
\* or one photo in one album
InitFault ==
  /\ \E n \in 0..1, a \in 0..1 :
       /\ a <= n
       /\ storePhotos = [k \in 1..n |-> NewPhoto(k)]
       /\ storeAlbums = [k \in 1..a |-> [id |-> k, name |-> "My Gallery",
                                         photoIds |-> <<1>>, coverPhotoId |-> 1]]
       /\ nextId = n
       /\ nextAlbum = a
  /\ fsDeleted = {}
  /\ nextEdit = 0
  /\ screen = "gallery"
  /\ tasks = FocusLoads
  /\ photoUri = FALSE
  /\ gallery = BlankGallery
  /\ detail = BlankDetail
  /\ albumsScr = BlankAlbumsScr
  /\ cropParams = NoCrop
  /\ lastWrite = NoWrite
  /\ removed = {}
  /\ ops = 0

SpecFault == InitFault /\ [][NextFault]_vars

\* the camera, photo details and crop screens with their handlers overlapping
\* freely (the gallery only lists the photos and opens them)
NextRace ==
  \/ Back
  \/ BackFromCrop
  \/ OpenCamera
  \/ OpenDetail
  \/ OpenCrop
  \/ takePhoto
  \/ retakePhoto
  \/ savePhoto
  \/ setCaption
  \/ saveCaption
  \/ toggleFavorite
  \/ deletePhoto
  \/ rotatePhoto
  \/ cropPhoto
  \/ saveEdits
  \/ handleSave
  \/ \E i \in 1..Len(tasks) : ReadPhotos(i)
  \/ \E i \in 1..Len(tasks) : WritePhotos(i)
  \/ \E i \in 1..Len(tasks) : savePhotoDone(i)
  \/ \E i \in 1..Len(tasks) : LoadRead(i)
  \/ \E i \in 1..Len(tasks) : loadPhotos(i)
  \/ \E i \in 1..Len(tasks) : loadAlbums(i)
  \/ \E i \in 1..Len(tasks) : LoadDetailRead(i)
  \/ \E i \in 1..Len(tasks) : loadDetail(i)
  \/ \E i \in 1..Len(tasks) : toggleFavoriteDone(i)
  \/ \E i \in 1..Len(tasks) : deletePhotoDone(i)
  \/ \E i \in 1..Len(tasks) : cropPhotoDone(i)
  \/ \E i \in 1..Len(tasks) : saveEditsDone(i)
  \/ \E i \in 1..Len(tasks) : handleSaveDone(i)

SpecRace == Init /\ [][NextRace]_vars

\* the details screen open on the one persisted photo, its mount effect done, the
\* caption input holding what the user typed; a savePhoto invoked on the camera
\* screen just before may still be awaiting its getItem
InitOverlap ==
  /\ storePhotos = <<NewPhoto(1)>>
  /\ storeAlbums = <<>>
  /\ nextAlbum = 0
  /\ fsDeleted = {}
  /\ nextEdit = 0
  /\ screen = "detail"
  /\ \/ tasks = <<>> /\ nextId = 1 /\ ops = 0
     \/ /\ tasks = <<[BlankTask EXCEPT !.op = "savePhoto", !.pc = "read", !.id = 2,
                                       !.live = FALSE]>>
        /\ nextId = 2 /\ ops = 1
  /\ photoUri = FALSE
  /\ gallery = [BlankGallery EXCEPT !.allPhotos = storePhotos]
  /\ \E c \in Captions :
       detail = [BlankDetail EXCEPT !.mounted = TRUE, !.id = 1, !.photo = NewPhoto(1),
                                    !.caption = c, !.editUri = DocUri(1)]
  /\ albumsScr = BlankAlbumsScr
  /\ cropParams = NoCrop
  /\ lastWrite = NoWrite
  /\ removed = {}

\* the handlers of the details screen that rewrite 'photos', and the pending
\* savePhoto, overlapping freely
NextOverlap ==
  \/ ops < MaxOverlapOps /\ saveCaption
  \/ ops < MaxOverlapOps /\ toggleFavorite
  \/ ops < MaxOverlapOps /\ saveEdits
  \/ rotatePhoto
  \/ \E i \in 1..Len(tasks) : ReadPhotos(i)
  \/ \E i \in 1..Len(tasks) : WritePhotos(i)
  \/ \E i \in 1..Len(tasks) : savePhotoDone(i)
  \/ \E i \in 1..Len(tasks) : toggleFavoriteDone(i)
  \/ \E i \in 1..Len(tasks) : saveEditsDone(i)

SpecOverlap == InitOverlap /\ [][NextOverlap]_vars

\* every handler in flight has read 'photos'
AllRead == \A i \in 1..Len(tasks) : tasks[i].pc # "read"

\* the same handlers scheduled so that all of them read 'photos' before any of them
\* writes it: no handler is invoked once a write has taken effect, and no write
\* takes effect while a handler has still to read
NextLostUpdate ==
  \/ lastWrite = NoWrite /\ ops < MaxOverlapOps /\ saveCaption
  \/ lastWrite = NoWrite /\ ops < MaxOverlapOps /\ toggleFavorite
  \/ lastWrite = NoWrite /\ ops < MaxOverlapOps /\ saveEdits
  \/ rotatePhoto
  \/ \E i \in 1..Len(tasks) : ReadPhotos(i)
  \/ \E i \in 1..Len(tasks) : AllRead /\ WritePhotos(i)
  \/ \E i \in 1..Len(tasks) : savePhotoDone(i)
  \/ \E i \in 1..Len(tasks) : toggleFavoriteDone(i)
  \/ \E i \in 1..Len(tasks) : saveEditsDone(i)

SpecLostUpdate == InitOverlap /\ [][NextLostUpdate]_vars

\* the favorite button of the details screen pressed again and again, each press
\* starting its own toggleFavorite
InitToggle == InitOverlap /\ tasks = <<>>

NextToggle ==
  \/ toggleFavorite
  \/ \E i \in 1..Len(tasks) : ReadPhotos(i)
  \/ \E i \in 1..Len(tasks) : WritePhotos(i)
  \/ \E i \in 1..Len(tasks) : toggleFavoriteDone(i)

SpecToggle == InitToggle /\ [][NextToggle]_vars

\* the camera screen holding one captured image (takePhoto has set photoUri); the
\* gallery beneath it still shows the list it loaded before the capture
InitCapture ==
  /\ storePhotos \in {<<>>, <<NewPhoto(1)>>}
  /\ storeAlbums = <<>>
  /\ fsDeleted = {}
  /\ nextId = Len(storePhotos)
  /\ nextAlbum = 0
  /\ nextEdit = 0
  /\ screen = "camera"
  /\ tasks = <<>>
  /\ photoUri = TRUE
  /\ gallery = [BlankGallery EXCEPT !.allPhotos = storePhotos]
  /\ detail = BlankDetail
  /\ albumsScr = BlankAlbumsScr
  /\ cropParams = NoCrop
  /\ lastWrite = NoWrite
  /\ removed = {}
  /\ ops = 0

\* the Save and Retake buttons of the preview and the steps of the saves they start;
\* no takePhoto, so every savePhoto of a behaviour saves the same captured image
NextCapture ==
  \/ savePhoto
  \/ retakePhoto
  \/ \E i \in 1..Len(tasks) : ReadPhotos(i)
  \/ \E i \in 1..Len(tasks) : WritePhotos(i)
  \/ \E i \in 1..Len(tasks) : savePhotoDone(i)

SpecCapture == InitCapture /\ [][NextCapture]_vars

\* the edit buttons of the details screen (Rotate, Crop, B&W, Save) pressed in any
\* order, also while an earlier edit or save is still awaiting
NextEdit ==
  \/ rotatePhoto
  \/ ops < MaxOverlapOps /\ cropPhoto
  \/ ops < MaxOverlapOps /\ applyBlackAndWhite
  \/ ops < MaxOverlapOps /\ saveEdits
  \/ \E i \in 1..Len(tasks) : ReadPhotos(i)
  \/ \E i \in 1..Len(tasks) : WritePhotos(i)
  \/ \E i \in 1..Len(tasks) : cropPhotoDone(i)
  \/ \E i \in 1..Len(tasks) : applyBlackAndWhiteDone(i)
  \/ \E i \in 1..Len(tasks) : applyBlackAndWhiteFails(i)
  \/ \E i \in 1..Len(tasks) : saveEditsDone(i)

SpecEdit == InitToggle /\ [][NextEdit]_vars

\* --------------------------------------- the cascade of deleteSelected on its own
\* the ids of the photos in the store when the cascade / the album view is tried
FnPhotoIds == {1, 2, 3}

\* the sequences over S without repetition (the shapes an id list can have)
DistinctSeqs(S) ==
  {q \in UNION {[1..n -> S] : n \in 0..Cardinality(S)} :
     \A i, j \in 1..Len(q) : i # j => q[i] # q[j]}

\* the names createOrUpdateAlbum / Create gave the albums, by position
FnNames == <<"My Gallery", "Trip", "Zoo">>

\* the albums an album list can hold: photoIds is a non-empty list without
\* repetition, coverPhotoId is one of its ids or unset (an album made on the albums
\* screen has none until the gallery appends to it)
FnAlbumShapes ==
  {[photoIds |-> q, coverPhotoId |-> c] :
     q \in DistinctSeqs(FnPhotoIds) \ {<<>>}, c \in FnPhotoIds \cup {None}}

FnAlbumLists(least) ==
  {[k \in 1..Len(l) |-> [id |-> k, name |-> FnNames[k], photoIds |-> l[k].photoIds,
                         coverPhotoId |-> l[k].coverPhotoId]] :
     l \in {m \in UNION {[1..n -> FnAlbumShapes] : n \in least..FnAlbums} :
              \A k \in 1..Len(m) : m[k].coverPhotoId \in Range(m[k].photoIds) \cup {None}}}

FnPhotoLists == {[k \in 1..Len(q) |-> NewPhoto(q[k])] : q \in DistinctSeqs(FnPhotoIds)}

\* the gallery in selection mode with its action modal open, over any album list
InitCascade ==
  /\ storePhotos = [k \in 1..Cardinality(FnPhotoIds) |-> NewPhoto(k)]
  /\ storeAlbums \in FnAlbumLists(0)
  /\ fsDeleted = {}
  /\ nextId = Cardinality(FnPhotoIds)
  /\ nextAlbum = Len(storeAlbums)
  /\ nextEdit = 0
  /\ screen = "gallery"
  /\ tasks = <<>>
  /\ photoUri = FALSE
  /\ gallery \in {[BlankGallery EXCEPT !.allPhotos = storePhotos, !.albums = storeAlbums,
                                       !.selectedIds = q, !.selectionMode = TRUE,
                                       !.showActionModal = TRUE] :
                    q \in DistinctSeqs(FnPhotoIds) \ {<<>>}}
  /\ detail = BlankDetail
  /\ albumsScr = BlankAlbumsScr
  /\ cropParams = NoCrop
  /\ lastWrite = NoWrite
  /\ removed = {}
  /\ ops = 0

NextCascade ==
  \/ Idle /\ deleteSelected
  \/ \E i \in 1..Len(tasks) : WritePhotos(i)
  \/ \E i \in 1..Len(tasks) : WriteAlbums(i)
  \/ \E i \in 1..Len(tasks) : deleteSelectedDone(i)

SpecCascade == InitCascade /\ [][NextCascade]_vars

\* the cascade delete when either of its two setItem calls may reject
NextCascadeFault ==
  \/ Idle /\ deleteSelected
  \/ \E i \in 1..Len(tasks) : WritePhotos(i)
  \/ \E i \in 1..Len(tasks) : WriteAlbums(i)
  \/ \E i \in 1..Len(tasks) : setItemRejects(i)
  \/ \E i \in 1..Len(tasks) : deleteSelectedDone(i)

SpecCascadeFault == InitCascade /\ [][NextCascadeFault]_vars


\* ------------------------------------------------- the album view on its own
\* the albums screen after its load, over any photo list and any album list
InitAlbumView ==
  /\ storePhotos \in FnPhotoLists
  /\ storeAlbums \in FnAlbumLists(1)
  /\ fsDeleted = {}
  /\ nextId = Cardinality(FnPhotoIds)
  /\ nextAlbum = Len(storeAlbums)
  /\ nextEdit = 0
  /\ screen = "albums"
  /\ tasks = <<>>
  /\ photoUri = FALSE
  /\ gallery = [BlankGallery EXCEPT !.allPhotos = storePhotos, !.albums = storeAlbums]
  /\ detail = BlankDetail
  /\ albumsScr = [BlankAlbumsScr EXCEPT !.albums = storeAlbums, !.photos = storePhotos,
                                        !.loading = FALSE]
  /\ cropParams = NoCrop
  /\ lastWrite = NoWrite
  /\ removed = {}
  /\ ops = 0

NextAlbumView ==
  \/ SelectAlbum
  \/ CloseAlbum

SpecAlbumView == InitAlbumView /\ [][NextAlbumView]_vars

\* ------------------------------------------- every operation that writes 'albums'
\* the albums screen with its create modal open, over any album list, any selection
\* of the photos and any typed name
InitCreate ==
  /\ storePhotos = [k \in 1..Cardinality(FnPhotoIds) |-> NewPhoto(k)]
  /\ storeAlbums \in FnAlbumLists(1)
  /\ fsDeleted = {}
  /\ nextId = Cardinality(FnPhotoIds)
  /\ nextAlbum = Len(storeAlbums)
  /\ nextEdit = 0
  /\ screen = "albums"
  /\ tasks = <<>>
  /\ photoUri = FALSE
  /\ gallery = [BlankGallery EXCEPT !.allPhotos = storePhotos, !.albums = storeAlbums]
  /\ detail = BlankDetail
  /\ albumsScr \in {[BlankAlbumsScr EXCEPT !.albums = storeAlbums, !.photos = storePhotos,
                                            !.loading = FALSE, !.showCreateModal = TRUE,
                                            !.newAlbumName = n, !.selectedPhotoIds = q] :
                       n \in NameInputs, q \in DistinctSeqs(FnPhotoIds)}
  /\ cropParams = NoCrop
  /\ lastWrite = NoWrite
  /\ removed = {}
  /\ ops = 0

\* either the gallery with its action modal open or the albums screen with its
\* create modal open
InitAlbums == InitCascade \/ InitCreate

\* new album or append (createOrUpdateAlbum), the cascade delete, and Create on the
\* albums screen, one at a time
NextAlbums ==
  \/ Idle /\ CloseActionModal
  \/ Idle /\ handleAddToAlbum
  \/ Idle /\ setAlbumName
  \/ Idle /\ CloseAlbumModal
  \/ Idle /\ createOrUpdateAlbum
  \/ Idle /\ deleteSelected
  \/ Idle /\ create
  \/ \E i \in 1..Len(tasks) : WritePhotos(i)
  \/ \E i \in 1..Len(tasks) : WriteAlbums(i)
  \/ \E i \in 1..Len(tasks) : createOrUpdateAlbumDone(i)
  \/ \E i \in 1..Len(tasks) : deleteSelectedDone(i)
  \/ \E i \in 1..Len(tasks) : createDone(i)

SpecAlbums == InitAlbums /\ [][NextAlbums]_vars

\* the gallery's two modals with the handlers overlapping: the action modal stays
\* up while deleteSelected awaits its writes, so Add to Album can still be pressed
NextGalleryOverlap ==
  \/ handleAddToAlbum
  \/ createOrUpdateAlbum
  \/ deleteSelected
  \/ \E i \in 1..Len(tasks) : WritePhotos(i)
  \/ \E i \in 1..Len(tasks) : WriteAlbums(i)
  \/ \E i \in 1..Len(tasks) : createOrUpdateAlbumDone(i)
  \/ \E i \in 1..Len(tasks) : deleteSelectedDone(i)

SpecGalleryOverlap == InitCascade /\ [][NextGalleryOverlap]_vars

\* the gallery in selection mode with its action modal open, 'albums' empty or
\* holding the album "Trip" with its first photo
InitAlbumModal ==
  /\ storePhotos = [k \in 1..Cardinality(FnPhotoIds) |-> NewPhoto(k)]
  /\ storeAlbums \in {<<>>, <<[id |-> 1, name |-> "Trip", photoIds |-> <<1>>,
                               coverPhotoId |-> 1]>>}
  /\ fsDeleted = {}
  /\ nextId = Cardinality(FnPhotoIds)
  /\ nextAlbum = Len(storeAlbums)
  /\ nextEdit = 0
  /\ screen = "gallery"
  /\ tasks = <<>>
  /\ photoUri = FALSE
  /\ gallery \in {[BlankGallery EXCEPT !.allPhotos = storePhotos, !.albums = storeAlbums,
                                       !.selectedIds = q, !.selectionMode = TRUE,
                                       !.showActionModal = TRUE] :
                    q \in DistinctSeqs(FnPhotoIds) \ {<<>>}}
  /\ detail = BlankDetail
  /\ albumsScr = BlankAlbumsScr
  /\ cropParams = NoCrop
  /\ lastWrite = NoWrite
  /\ removed = {}
  /\ ops = 0

\* the album modal of the gallery with a setItem that may reject
NextAlbumModal ==
  \/ handleAddToAlbum
  \/ setAlbumName
  \/ CloseAlbumModal
  \/ createOrUpdateAlbumEmptyName
  \/ ops < MaxFaultOps /\ createOrUpdateAlbum
  \/ \E i \in 1..Len(tasks) : WriteAlbums(i)
  \/ \E i \in 1..Len(tasks) : setItemRejects(i)
  \/ \E i \in 1..Len(tasks) : createOrUpdateAlbumDone(i)

\* AsyncStorage settles every setItem promise (it resolves or rejects), and the
\* JavaScript event loop then runs the continuation of the awaiting handler
SetItemSettles ==
  WF_vars(\E i \in 1..Len(tasks) : WriteAlbums(i) \/ setItemRejects(i))

ContinuationRuns == WF_vars(\E i \in 1..Len(tasks) : createOrUpdateAlbumDone(i))

SpecAlbumModalLive ==
  InitAlbumModal /\ [][NextAlbumModal]_vars /\ SetItemSettles /\ ContinuationRuns

\* ------------------------------------------- the album modal on its own
\* the gallery with its album modal open (handleAddToAlbum has run), over any album
\* list and any non-empty selection
InitAlbumAdd ==
  /\ storePhotos = [k \in 1..Cardinality(FnPhotoIds) |-> NewPhoto(k)]
  /\ storeAlbums \in FnAlbumLists(0)
  /\ fsDeleted = {}
  /\ nextId = Cardinality(FnPhotoIds)
  /\ nextAlbum = Len(storeAlbums)
  /\ nextEdit = 0
  /\ screen = "gallery"
  /\ tasks = <<>>
  /\ photoUri = FALSE
  /\ gallery \in {[BlankGallery EXCEPT !.allPhotos = storePhotos, !.albums = storeAlbums,
                                       !.selectedIds = q, !.selectionMode = TRUE,
                                       !.showAlbumModal = TRUE,
                                       !.albumName = "My Gallery"] :
                    q \in DistinctSeqs(FnPhotoIds) \ {<<>>}}
  /\ detail = BlankDetail
  /\ albumsScr = BlankAlbumsScr
  /\ cropParams = NoCrop
  /\ lastWrite = NoWrite
  /\ removed = {}
  /\ ops = 0

NextAlbumAdd ==
  \/ setAlbumName
  \/ CloseAlbumModal
  \/ Idle /\ createOrUpdateAlbum
  \/ \E i \in 1..Len(tasks) : WriteAlbums(i)
  \/ \E i \in 1..Len(tasks) : createOrUpdateAlbumDone(i)

SpecAlbumAdd == InitAlbumAdd /\ [][NextAlbumAdd]_vars

\* ------------------------------------- adding and deleting on their own
\* the gallery after its focus loads, over any persisted photo list and no album
InitAddDelete ==
  /\ storePhotos \in FnPhotoLists
  /\ storeAlbums = <<>>
  /\ fsDeleted = {}
  /\ nextId = Cardinality(FnPhotoIds)
  /\ nextAlbum = 0
  /\ nextEdit = 0
  /\ screen = "gallery"
  /\ tasks = <<>>
  /\ photoUri = FALSE
  /\ gallery = [BlankGallery EXCEPT !.allPhotos = storePhotos]
  /\ detail = BlankDetail
  /\ albumsScr = BlankAlbumsScr
  /\ cropParams = NoCrop
  /\ lastWrite = NoWrite
  /\ removed = {}
  /\ ops = 0

\* the camera and the delete button of the details screen, one handler at a time
NextAddDelete ==
  \/ Idle /\ OpenCamera
  \/ Idle /\ takePhoto
  \/ Idle /\ retakePhoto
  \/ Idle /\ savePhoto
  \/ Idle /\ Back
  \/ Idle /\ OpenDetail
  \/ Idle /\ deletePhoto
  \/ \E i \in 1..Len(tasks) : ReadPhotos(i)
  \/ \E i \in 1..Len(tasks) : WritePhotos(i)
  \/ \E i \in 1..Len(tasks) : savePhotoDone(i)
  \/ \E i \in 1..Len(tasks) : deletePhotoDone(i)
  \/ \E i \in 1..Len(tasks) : LoadRead(i)
  \/ \E i \in 1..Len(tasks) : loadPhotos(i)
  \/ \E i \in 1..Len(tasks) : loadAlbums(i)
  \/ \E i \in 1..Len(tasks) : LoadDetailRead(i)
  \/ \E i \in 1..Len(tasks) : loadDetail(i)

SpecAddDelete == InitAddDelete /\ [][NextAddDelete]_vars

\* ------------------------------- the gallery regaining focus after a delete
\* the state router.back() of PhotoDetails.deletePhoto leaves: one of three photos
\* is gone from 'photos', the albums are any list, the gallery still holds what it
\* loaded at its previous focus and its two focus loads have just been started
InitRefocus ==
  /\ \E x \in FnPhotoIds :
       /\ storePhotos = FilterOutPhoto([k \in 1..Cardinality(FnPhotoIds) |-> NewPhoto(k)], x)
       /\ fsDeleted = {DocUri(x)}
       /\ removed = {DocUri(x)}
       /\ lastWrite = [NoWrite EXCEPT !.op = "deletePhoto", !.key = "photos", !.id = x]
  /\ storeAlbums \in FnAlbumLists(0)
  /\ nextId = Cardinality(FnPhotoIds)
  /\ nextAlbum = Len(storeAlbums)
  /\ nextEdit = 0
  /\ screen = "gallery"
  /\ tasks = FocusLoads
  /\ photoUri = FALSE
  /\ gallery = [BlankGallery EXCEPT
                  !.allPhotos = [k \in 1..Cardinality(FnPhotoIds) |-> NewPhoto(k)],
                  !.albums = storeAlbums]
  /\ detail = BlankDetail
  /\ albumsScr = BlankAlbumsScr
  /\ cropParams = NoCrop
  /\ ops = 0

\* the focus loads resolve or reject, then the user selects and deletes
NextRefocus ==
  \/ \E i \in 1..Len(tasks) : LoadRead(i)
  \/ \E i \in 1..Len(tasks) : loadPhotos(i)
  \/ \E i \in 1..Len(tasks) : loadAlbums(i)
  \/ \E i \in 1..Len(tasks) : getItemRejects(i)
  \/ Idle /\ ToggleSelectionMode
  \/ Idle /\ toggleSelect
  \/ Idle /\ handleSelectionAction
  \/ Idle /\ CloseActionModal
  \/ Idle /\ deleteSelected
  \/ \E i \in 1..Len(tasks) : WritePhotos(i)
  \/ \E i \in 1..Len(tasks) : WriteAlbums(i)
  \/ \E i \in 1..Len(tasks) : deleteSelectedDone(i)

SpecRefocus == InitRefocus /\ [][NextRefocus]_vars

\* ------------------------------------------------------------- claims
DeleteOps == {"deletePhoto", "deleteSelected"}

\* a delete handler whose writes have all taken effect
DeleteCompleted(t) == t.op \in DeleteOps /\ t.pc = "written"

\* the ids the persisted albums refer to
AlbumRefs(albums) == UNION {Range(albums[k].photoIds) : k \in 1..Len(albums)}

\* a handler that writes to the store is in flight
MutationInFlight ==
  \E i \in 1..Len(tasks) :
     tasks[i].op \in PhotoRmwOps \cup {"deleteSelected", "createOrUpdateAlbum", "create"}

\* C1: once a photo deletion has completed (gallery deleteSelected or details
\* deletePhoto), no persisted album has a deleted id in its photoIds.
C1_NoDeletedIdInAlbums ==
  \A i \in 1..Len(tasks) :
     DeleteCompleted(tasks[i]) => AlbumRefs(storeAlbums) \cap Targets(tasks[i]) = {}

\* C2: whenever no mutation is in flight, every id in every persisted album's
\* photoIds is the id of a persisted photo.
C2_ReferentialIntegrity ==
  ~MutationInFlight => AlbumRefs(storeAlbums) \subseteq Ids(storePhotos)

\* C3: no two persisted albums have names that are equal ignoring case.
C3_UniqueNamesIgnoringCase ==
  \A j, k \in 1..Len(storeAlbums) :
     j # k => ToLowerCase(storeAlbums[j].name) # ToLowerCase(storeAlbums[k].name)

\* the step in which deleteSelected's setItem('albums', ...) takes effect
SavesCascade(i) ==
  /\ tasks[i].op = "deleteSelected" /\ tasks[i].pc = "write2"
  /\ Len(tasks') >= i /\ tasks'[i].op = "deleteSelected" /\ tasks'[i].pc = "written"

\* id c is the first id of photoIds that is not among the deleted ids D
FirstNotDeleted(photoIds, D, c) ==
  \E m \in 1..Len(photoIds) :
     /\ photoIds[m] = c
     /\ c \notin D
     /\ \A j \in 1..(m - 1) : photoIds[j] \in D

\* C4: when the cascade of deleteSelected saves the albums, every saved album comes
\* from an album the handler held; if that album's coverPhotoId was among the
\* deleted ids its new coverPhotoId is the first id of its old photoIds that was
\* not deleted, and otherwise its coverPhotoId is unchanged.
C4_CoverReassigned ==
  [][\A i \in 1..Len(tasks) :
       SavesCascade(i) =>
         \A k \in 1..Len(storeAlbums') :
            \E j \in 1..Len(tasks[i].albums) :
               LET old == tasks[i].albums[j]
                   new == storeAlbums'[k]
                   D == Range(tasks[i].sel)
               IN /\ old.id = new.id
                  /\ IF old.coverPhotoId \in D
                     THEN FirstNotDeleted(old.photoIds, D, new.coverPhotoId)
                     ELSE new.coverPhotoId = old.coverPhotoId]_vars

\* C4 witness: the cascade has been saved for an album whose cover and whose first
\* photo were both deleted, and the album got a new cover
C4_Witness ==
  \E i \in 1..Len(tasks) :
     /\ DeleteCompleted(tasks[i])
     /\ \E j \in 1..Len(gallery.albums), k \in 1..Len(storeAlbums) :
          LET old == gallery.albums[j]
              new == storeAlbums[k]
              D == Range(tasks[i].sel)
          IN /\ old.id = new.id
             /\ old.coverPhotoId \in D
             /\ old.photoIds[1] \in D
             /\ new.coverPhotoId \notin D \cup {None}
             /\ new.coverPhotoId # old.coverPhotoId

\* the step in which a delete handler's last write takes effect
CompletesDelete(i) ==
  /\ tasks[i].op \in DeleteOps /\ tasks[i].pc # "written"
  /\ Len(tasks') >= i /\ tasks'[i].op = tasks[i].op /\ tasks'[i].pc = "written"

AlbumIds(albums) == [k \in 1..Len(albums) |-> albums[k].id]

\* C5: when a photo deletion completes, the persisted albums are the albums that
\* were persisted before it and still have an id that was not deleted, in their
\* original order: an album left with no photo is removed, the others are kept.
C5_EmptyAlbumsRemoved ==
  [][\A i \in 1..Len(tasks) :
       CompletesDelete(i) =>
         LET survives(album) == Range(album.photoIds) \ Targets(tasks[i]) # {}
         IN AlbumIds(storeAlbums') = AlbumIds(SelectSeq(storeAlbums, survives))]_vars

\* the place of the photo with this id in a list of photos / of the id in a list
\* of ids (0: not there)
PhotoPos(photos, id) == LET isIt(p) == p.id = id IN FindIndex(photos, isIt)
IdPos(ids, id) == LET isIt(x) == x = id IN FindIndex(ids, isIt)

\* the album view returns exactly the photos of the album that exist
ExactlyAlbumPhotos ==
  LET r == albumPhotos
      a == albumsScr.selectedAlbum
  IN /\ \A m \in 1..Len(r) : r[m] \in Range(albumsScr.photos) /\ r[m].id \in Range(a.photoIds)
     /\ \A k \in 1..Len(albumsScr.photos) :
          albumsScr.photos[k].id \in Range(a.photoIds) => albumsScr.photos[k] \in Range(r)
     /\ Len(r) = Cardinality(Ids(albumsScr.photos) \cap Range(a.photoIds))

\* C6: getPhotosForAlbum returns exactly the photos whose id is in
\* album.photoIds, in the order of album.photoIds, skipping ids with no photo.
C6_InPhotoIdsOrder ==
  albumsScr.selectedAlbum # NoAlbum =>
    /\ ExactlyAlbumPhotos
    /\ \A m, n \in 1..Len(albumPhotos) :
         m < n => IdPos(albumsScr.selectedAlbum.photoIds, albumPhotos[m].id)
                    < IdPos(albumsScr.selectedAlbum.photoIds, albumPhotos[n].id)

\* C7: every write to the store is made by a handler that read the collection it
\* replaces, with getItem in that same call, before the write.
C7_ReadBeforeWrite == lastWrite.op # "none" => lastWrite.read

\* the handler has started a read-modify-write of the collection and its write has
\* not taken effect yet
InRmw(t, key) ==
  IF key = "photos"
  THEN \/ t.op \in PhotoRmwOps /\ t.pc \in {"read", "write"}
       \/ t.op = "deleteSelected" /\ t.pc = "write"
  ELSE \/ t.op \in {"createOrUpdateAlbum", "create"} /\ t.pc = "write"
       \/ t.op = "deleteSelected" /\ t.pc \in {"write", "write2"}

\* C8: at most one read-modify-write of a collection is in flight at any moment.
C8_OneMutationInFlight ==
  \A key \in {"photos", "albums"} :
     Cardinality({i \in 1..Len(tasks) : InRmw(tasks[i], key)}) <= 1

\* C9: a photo field update whose photo id is not in the persisted photos performs
\* no write to the store.
C9_NotFoundWritesNothing == lastWrite.op \in FieldOps => lastWrite.found

\* C10: for every photo record a delete operation removed from the persisted
\* photos, deletion of the file at its uri has been requested.
C10_FileDeletionRequested == removed \subseteq fsDeleted

\* the step in which createOrUpdateAlbum's setItem('albums', ...) takes effect
SavesAlbum(i) ==
  /\ tasks[i].op = "createOrUpdateAlbum" /\ tasks[i].pc = "write"
  /\ Len(tasks') >= i /\ tasks'[i].op = "createOrUpdateAlbum" /\ tasks'[i].pc = "written"

\* the album's name equals the typed name, ignoring case and surrounding blanks
NameMatches(album, typed) == ToLowerCase(album.name) = ToLowerCase(Trim(typed))

\* the first album of the list whose name matches (0: none)
MatchIndex(albums, typed) ==
  IF \E k \in 1..Len(albums) : NameMatches(albums[k], typed)
  THEN CHOOSE k \in 1..Len(albums) :
         /\ NameMatches(albums[k], typed)
         /\ \A j \in 1..(k - 1) : ~NameMatches(albums[j], typed)
  ELSE 0

\* q is p followed by exactly the ids of sel that are not in p, in the order of sel
ExtendsBy(q, p, sel) ==
  /\ Len(q) >= Len(p)
  /\ \A m \in 1..Len(p) : q[m] = p[m]
  /\ {q[m] : m \in (Len(p) + 1)..Len(q)} = Range(sel) \ Range(p)
  /\ \A m, n \in (Len(p) + 1)..Len(q) : m < n => IdPos(sel, q[m]) < IdPos(sel, q[n])

AlreadyInAlbum ==
  LET k == MatchIndex(storeAlbums, gallery.albumName) IN
  /\ k > 0
  /\ Range(gallery.selectedIds) \subseteq Range(storeAlbums[k].photoIds)

\* C12: createOrUpdateAlbum called again with the name and the ids of an earlier
\* call reports 'No New Photos', starts no save and leaves 'albums' as it was.
C12_SecondCallNoChange ==
  [][(createOrUpdateAlbum /\ AlreadyInAlbum) =>
       /\ gallery'.alert = "No New Photos"
       /\ tasks' = tasks
       /\ storeAlbums' = storeAlbums]_vars

\* C12 witness: the album was written by createOrUpdateAlbum with exactly the ids
\* that are selected now, and the call made again for them reported 'No New Photos'
C12_Witness ==
  /\ gallery.showAlbumModal
  /\ gallery.alert = "No New Photos"
  /\ lastWrite.op = "createOrUpdateAlbum"
  /\ gallery.selectedIds # <<>>
  /\ AlreadyInAlbum
  /\ storeAlbums[MatchIndex(storeAlbums, gallery.albumName)].photoIds = gallery.selectedIds

\* the step in which the setItem('albums', ...) of an album creation path takes effect
CreatesAlbum(i) ==
  /\ tasks[i].op \in {"createOrUpdateAlbum", "create"} /\ tasks[i].pc = "write"
  /\ Len(tasks') >= i /\ tasks'[i].op = tasks[i].op /\ tasks'[i].pc = "written"

\* the album name typed on the screen the handler belongs to
TypedName(t) == IF t.op = "create" THEN albumsScr.newAlbumName ELSE gallery.albumName

\* C13: when no persisted album matches the typed name, either creation path appends
\* exactly one album, with the trimmed name, the chosen ids in the chosen order and
\* the first of them as coverPhotoId.
C13_NewAlbumShape ==
  [][\A i \in 1..Len(tasks) :
       (CreatesAlbum(i) /\ MatchIndex(storeAlbums, TypedName(tasks[i])) = 0) =>
         /\ Len(storeAlbums') = Len(storeAlbums) + 1
         /\ \A j \in 1..Len(storeAlbums) : storeAlbums'[j] = storeAlbums[j]
         /\ LET new == storeAlbums'[Len(storeAlbums')] IN
            /\ new.name = Trim(TypedName(tasks[i]))
            /\ new.photoIds = tasks[i].sel
            /\ new.coverPhotoId = tasks[i].sel[1]]_vars

\* the step in which the setItem('photos', ...) of a handler with this op takes effect
WritesPhotos(i, op) ==
  /\ tasks[i].op = op /\ tasks[i].pc = "write"
  /\ storePhotos' = tasks[i].photos
  /\ \/ Len(tasks') = Len(tasks) - 1
     \/ Len(tasks') >= i /\ tasks'[i].op = op /\ tasks'[i].pc # "write"

\* C14: a savePhoto that runs with no other photo mutation in flight makes 'photos'
\* its previous contents followed by one new record with caption '' and favorite
\* false; on an empty store the collection then holds exactly that one record.
C14_SavePhotoAppends ==
  [][\A i \in 1..Len(tasks) :
       WritesPhotos(i, "savePhoto") =>
         /\ Len(storePhotos') = Len(storePhotos) + 1
         /\ \A k \in 1..Len(storePhotos) : storePhotos'[k] = storePhotos[k]
         /\ LET new == storePhotos'[Len(storePhotos')] IN
            /\ new.id = tasks[i].id
            /\ new.id \notin Ids(storePhotos)
            /\ new.caption = ""
            /\ new.favorite = FALSE]_vars

\* C14 witness: a savePhoto has written a third record behind two older ones
C14_Witness ==
  \E i \in 1..Len(tasks) :
     /\ tasks[i].op = "savePhoto" /\ tasks[i].pc = "written"
     /\ Len(lastWrite.addedTo) = 2
     /\ Len(storePhotos) = 3
     /\ storePhotos[3].id = tasks[i].id

\* C17: adding a photo with a fresh id and then deleting that id returns 'photos'
\* to what it was before the add: when deletePhoto's write follows the savePhoto
\* write of the same id, the collection it leaves is the one that savePhoto replaced.
C17_AddThenDelete ==
  [][\A i \in 1..Len(tasks) :
       (/\ WritesPhotos(i, "deletePhoto")
        /\ lastWrite.op = "savePhoto"
        /\ lastWrite.id = tasks[i].id) => storePhotos' = lastWrite.addedTo]_vars

\* C17 witness: the photo added to two older ones has been deleted again
C17_Witness ==
  \E i \in 1..Len(tasks) :
     /\ tasks[i].op = "deletePhoto" /\ tasks[i].pc = "written"
     /\ lastWrite.op = "deletePhoto"
     /\ tasks[i].id > Cardinality(FnPhotoIds)
     /\ DocUri(tasks[i].id) \in removed
     /\ Len(lastWrite.addedTo) = 2
     /\ storePhotos = lastWrite.addedTo

\* the field a field update patches
PatchedField(op) ==
  CASE op = "saveCaption" -> "caption"
    [] op = "toggleFavorite" -> "favorite"
    [] OTHER -> "uri"

\* records a and b agree on every field but f
SameBut(a, b, f) == \A g \in (DOMAIN a) \ {f} : a[g] = b[g]

Writes(i) ==
  /\ tasks[i].pc \in {"write", "write2"}
  /\ \/ tasks[i].pc = "write2" /\ storeAlbums' = AlbumsToSave(tasks[i])
     \/ tasks[i].pc = "write" /\ tasks[i].op \in {"createOrUpdateAlbum", "create"}
          /\ storeAlbums' = tasks[i].albums
     \/ tasks[i].pc = "write" /\ tasks[i].op \notin {"createOrUpdateAlbum", "create"}
          /\ storePhotos' = tasks[i].photos
  /\ \/ Len(tasks') = Len(tasks) - 1
     \/ Len(tasks') >= i /\ tasks'[i].op = tasks[i].op /\ tasks'[i].pc # tasks[i].pc

\* C16: deleting a photo is idempotent: a delete whose ids were all absent from the
\* persisted photos when it started is a no-op, its writes leave 'photos' and
\* 'albums' as they were.
C16_DeleteAbsentIsNoOp ==
  [][\A i \in 1..Len(tasks) :
       (tasks[i].op \in DeleteOps /\ ~tasks[i].found /\ Writes(i)) =>
         /\ storePhotos' = storePhotos
         /\ storeAlbums' = storeAlbums]_vars


\* the step in which the albums save of the cascade delete fails: the handler was
\* awaiting saveAlbums and is gone without the write having taken effect
AlbumsSaveFails ==
  /\ tasks # <<>> /\ tasks[1].op = "deleteSelected" /\ tasks[1].pc = "write2"
  /\ tasks' = <<>>

\* the cascade delete stopped between its two writes
PartialWriteFailure ==
  /\ Idle
  /\ gallery.alert = "Error"
  /\ lastWrite.op = "deleteSelected" /\ lastWrite.key = "photos"

\* C18: in the gallery's cascade delete 'photos' is saved before 'albums': when the
\* albums are written the selected photos are already gone from the persisted
\* photos.  If the albums save fails after the photos save succeeded, the persisted
\* photos stay without the selected photos and the persisted albums stay as they
\* were, still referring to them; no handler is left to roll back or retry.
C18_PhotosBeforeAlbums ==
  [][/\ storeAlbums' # storeAlbums =>
          /\ lastWrite.op = "deleteSelected" /\ lastWrite.key = "photos"
          /\ storePhotos' = storePhotos
          /\ Ids(storePhotos) \cap Range(gallery.selectedIds) = {}
     /\ AlbumsSaveFails =>
          /\ storePhotos' = storePhotos /\ storeAlbums' = storeAlbums
          /\ gallery'.alert = "Error"
     /\ PartialWriteFailure' =>
          /\ Ids(storePhotos') = Ids(gallery'.allPhotos) \ Range(gallery'.selectedIds)
          /\ storeAlbums' = gallery'.albums]_vars

\* the albums save failed and a persisted album refers to a photo that is gone
C18_Witness ==
  /\ PartialWriteFailure
  /\ AlbumRefs(storeAlbums) \ Ids(storePhotos) # {}
  /\ AlbumRefs(storeAlbums) \ Ids(gallery.allPhotos) = {}


\* the operations that write one collection with one setItem
SingleWriteOps == PhotoRmwOps \cup {"createOrUpdateAlbum", "create"}

\* the handler has had a setItem take effect
Wrote(t) == t.pc \in {"write2", "written"}

\* the step in which the one setItem of handler i takes effect: its collection
\* becomes the list the handler computed, the other collection is untouched
Completes(i) ==
  /\ tasks[i].pc = "write"
  /\ IF tasks[i].op \in {"createOrUpdateAlbum", "create"}
     THEN storeAlbums' = tasks[i].albums /\ storePhotos' = storePhotos
     ELSE storePhotos' = tasks[i].photos /\ storeAlbums' = storeAlbums
  /\ \A j \in 1..Len(tasks') : tasks'[j].op = tasks[i].op => tasks'[j].pc = "written"

\* handler i is no longer running after the step
Gone(i) == \A j \in 1..Len(tasks') : tasks'[j].op # tasks[i].op

\* C19: every operation other than the gallery's cascade delete either completes
\* with its collection persisted or fails leaving 'photos' and 'albums' as they were
\* before the call: while the operation runs (nothing else does) the only step that
\* changes a collection is the one in which its single setItem takes effect and
\* persists the list it computed; a handler that ends in its catch block has not
\* written and its last step changes neither collection.
C19_CompletesOrLeavesAsBefore ==
  [][\A i \in 1..Len(tasks) :
       tasks[i].op \in SingleWriteOps =>
         /\ Len(tasks) = 1
         /\ \/ Completes(i) /\ ~Wrote(tasks[i])
            \/ /\ storePhotos' = storePhotos /\ storeAlbums' = storeAlbums
               /\ Gone(i) => (tasks[i].pc = "written" \/ ~Wrote(tasks[i]))]_vars

\* createOrUpdateAlbum failed at its saveAlbums: the album modal is still open, no
\* album is persisted and the selected photos are still there
C19_Witness ==
  /\ Idle
  /\ gallery.alert = "Error" /\ gallery.showAlbumModal /\ ~gallery.isLoading
  /\ gallery.selectedIds # <<>>
  /\ storeAlbums = <<>> /\ Ids(storePhotos) = Range(gallery.selectedIds)


\* C20: when the persisted 'photos' or 'albums' value cannot be read or parsed, the
\* load or mutation that asked for it treats the collection as empty and goes on:
\* a gallery load ends with the empty list on screen, any other handler is still
\* running after the failed read.
C20_UnreadableIsEmpty ==
  [][\A i \in 1..Len(tasks) :
       (getItemRejects(i) /\ tasks[i].pc \in {"read", "read2"}) =>
         CASE tasks[i].op = "loadPhotos" -> gallery'.allPhotos = <<>>
           [] tasks[i].op = "loadAlbums" -> gallery'.albums = <<>>
           [] OTHER -> ~Gone(i)]_vars


\* C21: no two records of the persisted 'photos' have the same id, in every
\* reachable state, whatever the overlap of the handlers that rewrite it (savePhoto
\* names each record with a fresh uuid).
C21_UniquePhotoIds ==
  \A i, j \in 1..Len(storePhotos) : i # j => storePhotos[i].id # storePhotos[j].id

\* the pending savePhoto and a saveEdits of the details screen have both persisted
C21_Witness ==
  /\ Len(storePhotos) = 2
  /\ lastWrite.op = "saveEdits"
  /\ storePhotos[1].uri = EditUri(1)
  /\ storePhotos[2] = NewPhoto(2)


\* C22: no persisted album's photoIds holds the same photo id more than once, after
\* any album creation (gallery or albums screen), append to an existing album or
\* cascade delete.
C22_NoDuplicatePhotoIds ==
  \A k \in 1..Len(storeAlbums) :
     \A i, j \in 1..Len(storeAlbums[k].photoIds) :
        i # j => storeAlbums[k].photoIds[i] # storeAlbums[k].photoIds[j]

\* an append has been persisted: the one album grew to all three photos and no new
\* album was made
C22_Witness ==
  /\ lastWrite.op = "createOrUpdateAlbum"
  /\ nextAlbum = 1 /\ Len(storeAlbums) = 1
  /\ Len(storeAlbums[1].photoIds) = 3
  /\ Len(gallery.albums) = 1
  /\ Len(gallery.albums[1].photoIds) = 1

\* C23: every persisted album whose coverPhotoId is set has that id among its own
\* photoIds, after any album creation, append or photo deletion.
C23_CoverAmongPhotoIds ==
  \A k \in 1..Len(storeAlbums) :
     storeAlbums[k].coverPhotoId # None =>
        storeAlbums[k].coverPhotoId \in Range(storeAlbums[k].photoIds)

\* a cascade delete has removed the cover of an album that keeps other photos
C23_Witness ==
  /\ lastWrite.op = "deleteSelected" /\ lastWrite.key = "albums"
  /\ Len(storeAlbums) = 1 /\ Len(gallery.albums) = 1
  /\ gallery.albums[1].coverPhotoId # None
  /\ Includes(gallery.selectedIds, gallery.albums[1].coverPhotoId)
  /\ storeAlbums[1].coverPhotoId # None


\* C24: an album is never created from an empty set of photo ids: every persisted
\* album has at least one photo id.
C24_NoAlbumWithoutPhotos ==
  \A k \in 1..Len(storeAlbums) : Len(storeAlbums[k].photoIds) > 0


\* what the handler that wrote last would make of the collection `photos`
LastWriterSnapshots(photos) ==
  {Transformed([BlankTask EXCEPT !.op = lastWrite.op, !.id = lastWrite.id,
                                 !.caption = detail.caption, !.uri = EditUri(k)],
               photos) : k \in 0..nextEdit}

\* C25: when mutations of 'photos' overlap so that all of them read the collection
\* before any of them writes it, the persisted collection is at every moment the
\* snapshot of the handler that wrote last, that is its own change applied to the
\* collection they all read: the changes of the earlier writers are lost, and no
\* error is reported (no alert is raised).
C25_LaterSnapshotWins ==
  lastWrite.op # "none" =>
    /\ storePhotos \in LastWriterSnapshots(<<NewPhoto(1)>>)
    /\ gallery.alert = "none"

\* the pending savePhoto wrote first and toggleFavorite wrote over it: the saved
\* photo is gone from 'photos'
C25_Witness ==
  /\ lastWrite.op = "toggleFavorite"
  /\ \E i \in 1..Len(tasks) : tasks[i].op = "savePhoto" /\ tasks[i].pc = "written"
  /\ Ids(storePhotos) = {1}
  /\ storePhotos[1].favorite


\* the step in which toggleFavorite i runs its setPhoto and returns
CompletesToggle(i) ==
  /\ tasks[i].op = "toggleFavorite" /\ tasks[i].pc = "written" /\ tasks[i].live
  /\ tasks' = RemoveAt(tasks, i)

\* C26: after every completed toggleFavorite, also when toggleFavorite was invoked
\* again before an earlier invocation had finished, the favorite flag shown on the
\* details screen equals the favorite flag of that photo in the persisted 'photos'.
C26_ShownFavoriteIsPersisted ==
  [][\A i \in 1..Len(tasks) :
       CompletesToggle(i) =>
         \E k \in 1..Len(storePhotos') :
            /\ storePhotos'[k].id = detail'.photo.id
            /\ storePhotos'[k].favorite = detail'.photo.favorite]_vars


\* C27: for one captured image savePhoto adds at most one record to the persisted
\* 'photos', also when Save is pressed again before the first savePhoto has finished
\* and cleared photoUri.
C27_OneRecordPerCapture == Len(storePhotos) <= Len(gallery.allPhotos) + 1


\* C28: every invocation of createOrUpdateAlbum eventually leaves isLoading false, on
\* every exit path (blank name, no new photos, saved, save failed): the Create and
\* Cancel buttons of the album modal never stay disabled forever.
C28_LoadingEnds == gallery.isLoading ~> ~gallery.isLoading

\* C28 witness: the save of createOrUpdateAlbum failed, the modal is still open and
\* its buttons are enabled again
C28_Witness ==
  /\ gallery.showAlbumModal /\ gallery.alert = "Error"
  /\ ~gallery.isLoading /\ tasks = <<>>


\* C29: in every reachable gallery state a non-empty selectedIds implies that
\* selectionMode is true: leaving selection mode, a gallery focus event, a successful
\* album create/append and a successful deleteSelected clear the selection together
\* with the mode, and photos are toggled into the selection only in selection mode.
C29_SelectionOnlyInSelectionMode ==
  gallery.selectedIds # <<>> => gallery.selectionMode

\* C29 witness: photos are selected again after an earlier selection was cleared by
\* a successful album save
C29_Witness ==
  /\ gallery.selectedIds # <<>> /\ gallery.selectionMode
  /\ gallery.alert = "Success"


\* C30: on the details screen rotation is always one of 0, 90, 180, 270, and whenever
\* hasEdits is false there is no unsaved edit: rotation is 0 and editUri is the uri
\* of the displayed photo; after any interleaving of rotatePhoto, cropPhoto,
\* applyBlackAndWhite and saveEdits, edits made while a saveEdits is in flight included.
C30_NoUnsavedEditWithoutHasEdits ==
  /\ detail.rotation \in {0, 90, 180, 270}
  /\ ~detail.hasEdits => /\ detail.rotation = 0
                         /\ detail.editUri = detail.photo.uri

\* C30 witness: a saveEdits has completed and cleared hasEdits while an
\* applyBlackAndWhite started during the save is still awaiting
C30_Witness ==
  /\ ~detail.hasEdits /\ detail.editUri # DocUri(1)
  /\ \E i \in 1..Len(tasks) : tasks[i].op = "applyBlackAndWhite"

====
